---- MODULE Spec2Model ----
(***************************************************************************)
(* Dependency resolution of semgrep's supply-chain scan:                   *)
(*   cli/src/semgrep/resolve_dependency_source.py  (dispatcher, adapter)   *)
(*   cli/src/semgrep/resolve_subprojects.py        (orchestrator loop)     *)
(*   cli/src/semgrep/subproject.py                 (data model)            *)
(*                                                                         *)
(* The remote engine (semgrep.rpc_call.resolve_dependencies) and the       *)
(* lockfile parsers (package semdep.parsers) are external: each call is a   *)
(* step whose outcome is chosen nondeterministically from a bounded set.   *)
(***************************************************************************)
EXTENDS Integers, Sequences, FiniteSets, TLC

VARIABLES
    allow_dynamic_resolution, \* resolve_subprojects argument
    ptt_enabled,              \* resolve_subprojects argument
    resolve_untargeted_subprojects, \* resolve_subprojects argument
    all_dependency_source_targets,  \* target_manager: the dependency source files that are targets
    code_files,               \* target_manager: the kept code files of each language
    dependency_aware_rules,   \* the rules: each declares languages and ecosystems
    found_subprojects,        \* the discovered list (find_subprojects' result)
    relevant_subprojects,     \* the list the dispatch loop iterates over
    item_i,                   \* number of loop iterations completed
    pc,                       \* position of the run
    frame,                    \* locals of the resolve_dependency_source call in progress
    result,                   \* value returned by resolve_dependency_source
    unresolved,               \* List[UnresolvedSubproject]
    resolved,                 \* Dict[Ecosystem, List[ResolvedSubproject]]
    dependency_targets,       \* List[Path]
    calls,                    \* history: external calls made for the current subproject
    rpc_seen,                 \* history: last response of the remote call and what the adapter returned
    parser_seen,              \* history: last output of a static parser
    produced,                 \* history: every error produced for the current subproject
    obtained,                 \* history: some external call returned a dependency for it
    history,                  \* history: one entry per finished loop iteration
    closest_calls,            \* history: the find_closest_subproject calls made by the filter
    child_results,            \* history: what each child of the MultiLockfile source in progress returned
    stats,                    \* the SubprojectStats computed so far
    dependency_source_files,  \* find_subprojects argument
    matchers,                 \* find_subprojects argument
    matcher_i,                \* find_subprojects: number of matchers tried
    used_files,               \* find_subprojects local
    unresolved_subprojects,   \* find_subprojects local: the list it returns
    offered,                  \* history: what each matcher was passed and what it returned
    flat_deps,                \* the list handed to from_found_dependencies
    graph,                    \* ResolvedDependencies._dependencies_by_package_version_pair
    directs,                  \* pretty_print local
    direct_i,                 \* pretty_print: number of Direct entries printed with their children
    stack,                    \* the pretty_print_dependency calls in progress, innermost last
    already_printed,          \* the set the pretty_print_dependency calls of one root share
    printed_in_graph,         \* pretty_print local
    printed,                  \* the lines printed so far
    expanded,                 \* history: the keys whose children were iterated over, in order
    exception                 \* the exception that ended the run, or NoneV

vars == <<allow_dynamic_resolution, ptt_enabled, resolve_untargeted_subprojects,
          all_dependency_source_targets, code_files, dependency_aware_rules,
          found_subprojects, relevant_subprojects, item_i, pc,
          frame, result, unresolved, resolved, dependency_targets,
          calls, rpc_seen, parser_seen, produced, obtained, history,
          closest_calls, child_results, stats,
          dependency_source_files, matchers, matcher_i, used_files,
          unresolved_subprojects, offered,
          flat_deps, graph, directs, direct_i, stack, already_printed,
          printed_in_graph, printed, expanded, exception>>

-----------------------------------------------------------------------------
(* Bounds of the model *)

MaxDeps == 2          \* longest dependency list an external call returns
MaxErrors == 2        \* longest error list an external call returns
MaxResponses == 2     \* longest response list of the remote call
MaxChildren == 2      \* most children of a MultiLockfile source
MaxSubprojects == 2   \* most subprojects in one orchestrator run
MaxStatsCalls == 2    \* most to_stats_output calls made on one pair of subprojects
MaxDepth == 4         \* most pretty_print_dependency calls in progress at once
MaxMatchers == 2      \* most matchers handed to find_subprojects

NoneV == "None"

-----------------------------------------------------------------------------
(* Kinds (semgrep_output_v1 LockfileKind / ManifestKind) *)

\* keys of PARSERS_BY_LOCKFILE_KIND whose value is a parser
ParsedLockfileKinds ==
    {"PipfileLock", "PipRequirementsTxt", "PoetryLock", "NpmPackageLockJson",
     "YarnLock", "PnpmLock", "GemfileLock", "ComposerLock", "GoMod", "CargoLock",
     "MavenDepTree", "GradleLockfile", "NugetPackagesLockJson", "PubspecLock",
     "SwiftPackageResolved", "MixLock"}

\* keys of PARSERS_BY_LOCKFILE_KIND whose value is None
UnparsedLockfileKinds == {"UvLock", "ConanLock"}

\* a lockfile kind that is not a key of PARSERS_BY_LOCKFILE_KIND
OtherLockfileKind == "OtherLockfileKind"

LockfileKinds == ParsedLockfileKinds \cup UnparsedLockfileKinds \cup {OtherLockfileKind}

\* a manifest kind that occurs in none of the PTT lists
OtherManifestKind == "OtherManifestKind"

ManifestKinds == {"PackageJson", "Csproj", "PomXml", "BuildGradle", "RequirementsIn",
                  OtherManifestKind}

\* The registry: "parser" for a DependencyParser, NoneV for None, "KeyError" when
\* the subscript PARSERS_BY_LOCKFILE_KIND[kind] raises.
PARSERS_BY_LOCKFILE_KIND(kind) ==
    IF kind \in ParsedLockfileKinds THEN "parser"
    ELSE IF kind \in UnparsedLockfileKinds THEN NoneV
    ELSE "KeyError"

PTT_OCAML_PARSER_SUBPROJECT_KINDS ==
    {<<"PackageJson", "NpmPackageLockJson">>,
     <<"Csproj", "NugetPackagesLockJson">>}

PTT_DYNAMIC_RESOLUTION_SUBPROJECT_KINDS ==
    {<<"PomXml", NoneV>>,
     <<"BuildGradle", NoneV>>,
     <<"BuildGradle", "GradleLockfile">>,
     <<"Csproj", NoneV>>,
     <<"RequirementsIn", "PipRequirementsTxt">>,
     <<NoneV, "PipRequirementsTxt">>}

-----------------------------------------------------------------------------
(* Dependency sources (subproject.py).  One record shape for the four      *)
(* classes; a field a class does not have holds NoneV / <<>>.              *)

ManifestOnlyDependencySource(mkind, mpath) ==
    [tag |-> "ManifestOnly", mkind |-> mkind, mpath |-> mpath,
     lkind |-> NoneV, lpath |-> NoneV, sources |-> <<>>]

LockfileOnlyDependencySource(lkind, lpath) ==
    [tag |-> "LockfileOnly", mkind |-> NoneV, mpath |-> NoneV,
     lkind |-> lkind, lpath |-> lpath, sources |-> <<>>]

ManifestLockfileDependencySource(mkind, mpath, lkind, lpath) ==
    [tag |-> "ManifestLockfile", mkind |-> mkind, mpath |-> mpath,
     lkind |-> lkind, lpath |-> lpath, sources |-> <<>>]

MultiLockfileDependencySource(sources) ==
    [tag |-> "MultiLockfile", mkind |-> NoneV, mpath |-> NoneV,
     lkind |-> NoneV, lpath |-> NoneV, sources |-> sources]

HasLockfile(src) == src.tag \in {"LockfileOnly", "ManifestLockfile"}

\* the ecosystems (out.Ecosystem) of the model
Ecosystems == {"Npm", "Pypi", "Maven"}

Subproject(root_dir, dependency_source, ecosystem) ==
    [root_dir |-> root_dir, dependency_source |-> dependency_source,
     ecosystem |-> ecosystem]

-----------------------------------------------------------------------------
(* Optional values: None is the empty tuple, a present value x is <<x>>.   *)

None == <<>>
Some(x) == <<x>>
IsNone(o) == o = <<>>
Get(o) == o[1]

\* the entries of a sequence, as a set
Range(seq) == { seq[i] : i \in 1..Len(seq) }

\* a sequence without its i-th entry
RemoveAt(seq, i) == SubSeq(seq, 1, i - 1) \o SubSeq(seq, i + 1, Len(seq))

-----------------------------------------------------------------------------
(* Values the external collaborators hand back *)

\* out.FoundDependency; entries 1 and 2 of a list share their (package, version) key
FoundDependency(package, i) ==
    [package |-> package, version |-> (i + 1) \div 2,
     transitivity |-> IF i % 2 = 1 THEN "Direct" ELSE "Transitive"]

\* the dependency lists an external call can return: the lists of length 0..MaxDeps
DependencyLists(package) ==
    { [i \in 1..n |-> FoundDependency(package, i)] : n \in 0..MaxDeps }

\* the error types (out.ResolutionError values) the engine can report, in order
ErrorTypeLists ==
    { [i \in 1..n |-> i] : n \in 0..MaxErrors }

\* out.ResolutionResult: Ok carries (dependencies, errors), Error carries errors
ResolutionOk(deps, errors) == [tag |-> "ResolutionOk", deps |-> deps, errors |-> errors]
ResolutionError(errors) == [tag |-> "ResolutionError", deps |-> <<>>, errors |-> errors]

ResolutionResults ==
    { ResolutionOk(d, e) : d \in DependencyLists("engine"), e \in ErrorTypeLists }
    \cup { ResolutionError(e) : e \in ErrorTypeLists }

\* what resolve_dependencies([source]) can do: raise, return None, or return a
\* list of n (source, result) pairs.  The adapter reads len(response) and
\* response[0][1] only, so a list is given by its length and its first result.
NoResponse(kind) == [kind |-> kind, n |-> 0, first |-> ResolutionError(<<>>)]

RpcResponses ==
    { NoResponse("raise"), NoResponse("None"), NoResponse("list") }
    \cup { [kind |-> "list", n |-> n, first |-> first] :
            n \in 1..MaxResponses, first \in ResolutionResults }

\* semgrep.error.DependencyResolutionError
DependencyResolutionError(type_, dependency_source_file) ==
    [cls |-> "DependencyResolutionError", type_ |-> type_,
     dependency_source_file |-> dependency_source_file]

\* out.DependencyParserError, as the parser of lockfile_path reports it
DependencyParserError(n, lockfile_path) ==
    [cls |-> "DependencyParserError", type_ |-> n,
     dependency_source_file |-> lockfile_path]

\* what parser(lockfile_path, manifest_path) can return
ParserOutputs(lockfile_path) ==
    { [deps |-> d, errors |-> [i \in 1..n |-> DependencyParserError(i, lockfile_path)]] :
        d \in DependencyLists("parser"), n \in 0..MaxErrors }

-----------------------------------------------------------------------------
(* _resolve_dependencies_rpc: the engine adapter, as a function of the     *)
(* source and of what the remote call did.                                 *)

\* the path every wrapped error carries
WrappedErrorFile(dependency_source) ==
    IF dependency_source.tag = "LockfileOnly"
    THEN dependency_source.lpath
    ELSE dependency_source.mpath

\* faulty variant (sensitivity of C8): the wrapped errors come out in reverse order
WrapErrors_Reversed(dependency_source, errors) ==
    [i \in 1..Len(errors) |->
        DependencyResolutionError(errors[Len(errors) + 1 - i],
                                  WrappedErrorFile(dependency_source))]

WrapErrors(dependency_source, errors) ==
    [i \in 1..Len(errors) |->
        DependencyResolutionError(errors[i], WrappedErrorFile(dependency_source))]

RpcTargets(dependency_source) ==
    IF dependency_source.tag = "ManifestOnly"
    THEN <<dependency_source.mpath>>
    ELSE <<dependency_source.lpath>>

\* the value returned, or the exception that leaves the function
RpcReturn(deps, errors, targets) ==
    [raised |-> NoneV, deps |-> deps, errors |-> errors, targets |-> targets]
RpcRaise(exc) ==
    [raised |-> exc, deps |-> None, errors |-> <<>>, targets |-> <<>>]

\* faulty variant (sensitivity of C30): the file is reported as consumed also
\* when the engine answers with an error
_resolve_dependencies_rpc_TargetsOnError(dependency_source, response) ==
    IF response.kind = "raise" THEN RpcReturn(None, <<>>, <<>>)
    ELSE IF response.kind = "None" THEN RpcReturn(None, <<>>, <<>>)
    ELSE IF response.n = 0 THEN RpcRaise("IndexError")
    ELSE LET res == response.first IN
         IF res.tag = "ResolutionOk"
         THEN RpcReturn(Some(res.deps),
                        WrapErrors(dependency_source, res.errors),
                        RpcTargets(dependency_source))
         ELSE RpcReturn(None,
                        WrapErrors(dependency_source, res.errors),
                        RpcTargets(dependency_source))

_resolve_dependencies_rpc(dependency_source, response) ==
    IF response.kind = "raise" THEN RpcReturn(None, <<>>, <<>>)
    ELSE IF response.kind = "None" THEN RpcReturn(None, <<>>, <<>>)
    ELSE IF response.n = 0 THEN RpcRaise("IndexError")   \* response[0]
    ELSE LET res == response.first IN
         IF res.tag = "ResolutionOk"
         THEN RpcReturn(Some(res.deps),
                        WrapErrors(dependency_source, res.errors),
                        RpcTargets(dependency_source))
         ELSE RpcReturn(None,
                        IF res.tag # "ResolutionOk"
                        THEN WrapErrors(dependency_source, res.errors)
                        ELSE <<DependencyResolutionError("ParseDependenciesFailed",
                                   WrappedErrorFile(dependency_source))>>,
                        <<>>)

-----------------------------------------------------------------------------
(* resolve_dependency_source and its handlers.  A handler runs up to its   *)
(* next external call; the call's return is the next step.                 *)

LOCKFILE_PARSING == "LOCKFILE_PARSING"
DYNAMIC == "DYNAMIC"

\* DependencyResolutionResult
Result(resolved_info, errors, targets) ==
    [resolved_info |-> resolved_info, errors |-> errors, targets |-> targets]
ResolvedInfo(method, deps) == Some([method |-> method, deps |-> deps])

\* faulty variant (sensitivity of C9): dynamic resolution is chosen without
\* looking at enable_dynamic_resolution
HandleLockfileEntry_IgnoresPolicy(dep_source, enable_dynamic_resolution, ptt) ==
    LET parser == PARSERS_BY_LOCKFILE_KIND(dep_source.lkind)
        manifest_kind == IF dep_source.tag = "ManifestLockfile"
                         THEN dep_source.mkind ELSE NoneV
        lockfile_kind == dep_source.lkind
        use_nondynamic_ocaml_parsing ==
            ptt /\ <<manifest_kind, lockfile_kind>> \in PTT_OCAML_PARSER_SUBPROJECT_KINDS
        use_dynamic_resolution ==
            ptt /\ <<manifest_kind, lockfile_kind>> \in PTT_DYNAMIC_RESOLUTION_SUBPROJECT_KINDS
    IN [next |-> IF parser = "KeyError" THEN "KeyError"
                 ELSE IF use_nondynamic_ocaml_parsing \/ use_dynamic_resolution THEN "rpc"
                 ELSE IF parser = NoneV THEN "return"
                 ELSE "parse",
        use_nondynamic_ocaml_parsing |-> use_nondynamic_ocaml_parsing,
        use_dynamic_resolution |-> use_dynamic_resolution]

\* faulty variant (sensitivity of C29): the two engine tests are made outside
\* the `if ptt_enabled` block
HandleLockfileEntry_IgnoresPtt(dep_source, enable_dynamic_resolution, ptt) ==
    LET parser == PARSERS_BY_LOCKFILE_KIND(dep_source.lkind)
        manifest_kind == IF dep_source.tag = "ManifestLockfile"
                         THEN dep_source.mkind ELSE NoneV
        lockfile_kind == dep_source.lkind
        use_nondynamic_ocaml_parsing ==
            <<manifest_kind, lockfile_kind>> \in PTT_OCAML_PARSER_SUBPROJECT_KINDS
        use_dynamic_resolution ==
            enable_dynamic_resolution
                /\ <<manifest_kind, lockfile_kind>> \in PTT_DYNAMIC_RESOLUTION_SUBPROJECT_KINDS
    IN [next |-> IF parser = "KeyError" THEN "KeyError"
                 ELSE IF use_nondynamic_ocaml_parsing \/ use_dynamic_resolution THEN "rpc"
                 ELSE IF parser = NoneV THEN "return"
                 ELSE "parse",
        use_nondynamic_ocaml_parsing |-> use_nondynamic_ocaml_parsing,
        use_dynamic_resolution |-> use_dynamic_resolution]

\* _handle_lockfile_source, lines 256-287: from entry to the first external call.
\* next is "KeyError" (the registry subscript raises), "rpc" (the engine is
\* called), "parse" (the static parser is called) or "return" (None, [], []).
HandleLockfileEntry(dep_source, enable_dynamic_resolution, ptt) ==
    LET parser == PARSERS_BY_LOCKFILE_KIND(dep_source.lkind)
        manifest_kind == IF dep_source.tag = "ManifestLockfile"
                         THEN dep_source.mkind ELSE NoneV
        lockfile_kind == dep_source.lkind
        use_nondynamic_ocaml_parsing ==
            ptt /\ <<manifest_kind, lockfile_kind>> \in PTT_OCAML_PARSER_SUBPROJECT_KINDS
        use_dynamic_resolution ==
            ptt /\ enable_dynamic_resolution
                /\ <<manifest_kind, lockfile_kind>> \in PTT_DYNAMIC_RESOLUTION_SUBPROJECT_KINDS
    IN [next |-> IF parser = "KeyError" THEN "KeyError"
                 ELSE IF use_nondynamic_ocaml_parsing \/ use_dynamic_resolution THEN "rpc"
                 ELSE IF parser = NoneV THEN "return"
                 ELSE "parse",
        use_nondynamic_ocaml_parsing |-> use_nondynamic_ocaml_parsing,
        use_dynamic_resolution |-> use_dynamic_resolution]

\* faulty variant (sensitivity of C2): the engine's list is tested for
\* truthiness, so an empty list falls back to the parser
HandleLockfileAfterRpc_Truthy(dep_source, use_nondynamic_ocaml_parsing, rpc) ==
    IF ~IsNone(rpc.deps) /\ Get(rpc.deps) # <<>>
    THEN [accept |-> TRUE, next |-> "return",
          result |-> Result(ResolvedInfo(IF use_nondynamic_ocaml_parsing
                                         THEN LOCKFILE_PARSING ELSE DYNAMIC,
                                         Get(rpc.deps)),
                            rpc.errors, rpc.targets)]
    ELSE IF PARSERS_BY_LOCKFILE_KIND(dep_source.lkind) = NoneV
    THEN [accept |-> FALSE, next |-> "return", result |-> Result(None, <<>>, <<>>)]
    ELSE [accept |-> FALSE, next |-> "parse", result |-> Result(None, <<>>, <<>>)]

\* faulty variant (sensitivity of C3): the early return is missing, so the
\* parser runs although the engine's result was usable
HandleLockfileAfterRpc_NoEarlyReturn(dep_source, use_nondynamic_ocaml_parsing, rpc) ==
    IF PARSERS_BY_LOCKFILE_KIND(dep_source.lkind) = NoneV
    THEN [accept |-> FALSE, next |-> "return", result |-> Result(None, <<>>, <<>>)]
    ELSE [accept |-> FALSE, next |-> "parse", result |-> Result(None, <<>>, <<>>)]

\* _handle_lockfile_source, lines 289-307: after the adapter returned rpc.
\* accept is TRUE when the engine's result is returned as the final result.
HandleLockfileAfterRpc(dep_source, use_nondynamic_ocaml_parsing, rpc) ==
    IF ~IsNone(rpc.deps)
    THEN [accept |-> TRUE, next |-> "return",
          result |-> Result(ResolvedInfo(IF use_nondynamic_ocaml_parsing
                                         THEN LOCKFILE_PARSING ELSE DYNAMIC,
                                         Get(rpc.deps)),
                            rpc.errors, rpc.targets)]
    ELSE IF PARSERS_BY_LOCKFILE_KIND(dep_source.lkind) = NoneV
    THEN [accept |-> FALSE, next |-> "return", result |-> Result(None, <<>>, <<>>)]
    ELSE [accept |-> FALSE, next |-> "parse", result |-> Result(None, <<>>, <<>>)]

\* faulty variant (sensitivity of C1): the lockfile is not reported as a target
HandleLockfileAfterParse_NoTarget(dep_source, parsed) ==
    Result(ResolvedInfo(LOCKFILE_PARSING, parsed.deps), parsed.errors, <<>>)

\* _handle_lockfile_source, lines 316-322: after the parser returned parsed
HandleLockfileAfterParse(dep_source, parsed) ==
    Result(ResolvedInfo(LOCKFILE_PARSING, parsed.deps), parsed.errors,
           <<dep_source.lpath>>)

\* faulty variant (sensitivity of C4): dependencies that come with errors are
\* thrown away
HandleManifestOnlyAfterRpc_AllOrNothing(rpc) ==
    IF IsNone(rpc.deps) \/ rpc.errors # <<>>
    THEN Result(None, rpc.errors, rpc.targets)
    ELSE Result(ResolvedInfo(DYNAMIC, Get(rpc.deps)), rpc.errors, rpc.targets)

\* _handle_manifest_only_source, lines 196-202: after the adapter returned rpc
HandleManifestOnlyAfterRpc(rpc) ==
    IF IsNone(rpc.deps)
    THEN Result(None, rpc.errors, rpc.targets)
    ELSE Result(ResolvedInfo(DYNAMIC, Get(rpc.deps)), rpc.errors, rpc.targets)

\* faulty variant (sensitivity of C10): the policy flag is not consulted
ManifestOnlyResolvable_IgnoresPolicy(dep_source, enable_dynamic_resolution) ==
    /\ dep_source.tag = "ManifestOnly"
    /\ <<dep_source.mkind, NoneV>> \in PTT_DYNAMIC_RESOLUTION_SUBPROJECT_KINDS

\* resolve_dependency_source, lines 350-354: the ManifestOnly branch is taken
ManifestOnlyResolvable(dep_source, enable_dynamic_resolution) ==
    /\ dep_source.tag = "ManifestOnly"
    /\ enable_dynamic_resolution
    /\ <<dep_source.mkind, NoneV>> \in PTT_DYNAMIC_RESOLUTION_SUBPROJECT_KINDS

\* faulty variant (sensitivity of C27): without any dependency the resolved pair
\* is None
MultiLockfileResult_NoneWhenEmpty(f) ==
    Result(IF f.all_resolved_deps = <<>> THEN None
           ELSE ResolvedInfo(IF DYNAMIC \in f.resolution_methods
                             THEN DYNAMIC ELSE LOCKFILE_PARSING,
                             f.all_resolved_deps),
           f.all_parse_errors, f.all_dep_targets)

\* faulty variant (sensitivity of C28): the test of the aggregation is inverted
MultiLockfileResult_Inverted(f) ==
    Result(ResolvedInfo(IF DYNAMIC \notin f.resolution_methods
                        THEN DYNAMIC ELSE LOCKFILE_PARSING,
                        f.all_resolved_deps),
           f.all_parse_errors, f.all_dep_targets)

\* _handle_multi_lockfile_source, lines 237-247: the value returned after the loop
MultiLockfileResult(f) ==
    Result(ResolvedInfo(IF DYNAMIC \in f.resolution_methods
                        THEN DYNAMIC ELSE LOCKFILE_PARSING,
                        f.all_resolved_deps),
           f.all_parse_errors, f.all_dep_targets)

\* faulty variant (sensitivity of C11): the caller's flags are passed on to the
\* children
ChildEntry_PassesFlags(f, lockfile_source) ==
    HandleLockfileEntry(lockfile_source, f.enable_dynamic_resolution, f.ptt_enabled)

\* _handle_multi_lockfile_source, lines 224-228: the call made for a child, with
\* enable_dynamic_resolution=False and ptt_enabled=False
ChildEntry(f, lockfile_source) ==
    HandleLockfileEntry(lockfile_source, FALSE, FALSE)

\* the locals of a resolve_dependency_source call: its arguments, the two flags
\* _handle_lockfile_source computes, and the accumulators and loop position of
\* _handle_multi_lockfile_source (child = 0 outside that loop)
Frame(dep_source, enable_dynamic_resolution, ptt) ==
    [dep_source |-> dep_source,
     enable_dynamic_resolution |-> enable_dynamic_resolution,
     ptt_enabled |-> ptt,
     use_nondynamic_ocaml_parsing |-> FALSE,
     use_dynamic_resolution |-> FALSE,
     child |-> 0,
     all_resolved_deps |-> <<>>,
     all_parse_errors |-> <<>>,
     all_dep_targets |-> <<>>,
     resolution_methods |-> {}]

NoFrame == Frame(LockfileOnlyDependencySource(NoneV, NoneV), FALSE, FALSE)

\* the source whose handler is running: the child inside the multi-lockfile loop
CurrentSource(f) ==
    IF f.child > 0 THEN f.dep_source.sources[f.child] ELSE f.dep_source

\* faulty variant (sensitivity of C12): a child that fails to resolve throws
\* away the dependencies collected so far
Accumulate_DiscardsOnFailure(f, r) ==
    [f EXCEPT
        !.resolution_methods =
            IF IsNone(r.resolved_info) THEN @ ELSE @ \cup {Get(r.resolved_info).method},
        !.all_resolved_deps =
            IF IsNone(r.resolved_info) THEN <<>> ELSE @ \o Get(r.resolved_info).deps,
        !.all_parse_errors = @ \o r.errors,
        !.all_dep_targets = @ \o r.targets,
        !.use_nondynamic_ocaml_parsing = FALSE,
        !.use_dynamic_resolution = FALSE,
        !.child = @ + 1]

\* _handle_multi_lockfile_source, lines 229-234: fold one child's result in
Accumulate(f, r) ==
    [f EXCEPT
        !.resolution_methods =
            IF IsNone(r.resolved_info) THEN @ ELSE @ \cup {Get(r.resolved_info).method},
        !.all_resolved_deps =
            IF IsNone(r.resolved_info) THEN @ ELSE @ \o Get(r.resolved_info).deps,
        !.all_parse_errors = @ \o r.errors,
        !.all_dep_targets = @ \o r.targets,
        !.use_nondynamic_ocaml_parsing = FALSE,
        !.use_dynamic_resolution = FALSE,
        !.child = @ + 1]

-----------------------------------------------------------------------------
(* subproject.py: the records the orchestrator emits *)

FAILED == "failed"
SKIPPED == "skipped"
UNSUPPORTED == "unsupported"

\* UnresolvedSubproject.from_subproject
UnresolvedSubproject_from_subproject(base, unresolved_reason, resolution_errors) ==
    [root_dir |-> base.root_dir,
     dependency_source |-> base.dependency_source,
     ecosystem |-> base.ecosystem,
     resolution_errors |-> resolution_errors,
     unresolved_reason |-> unresolved_reason]

DependencyChild(package, version) == [package |-> package, version |-> version]

\* faulty variant (sensitivity of C21): an entry replaces the group of its key
RECURSIVE MappingAfter_Overwrites(_, _)
MappingAfter_Overwrites(found_deps, n) ==
    IF n = 0 THEN <<>>
    ELSE LET mapping == MappingAfter_Overwrites(found_deps, n - 1)
             dep == found_deps[n]
             k == DependencyChild(dep.package, dep.version)
             at == { i \in 1..Len(mapping) : mapping[i].key = k }
         IN IF at = {}
            THEN Append(mapping, [key |-> k, deps |-> <<dep>>])
            ELSE [mapping EXCEPT ![CHOOSE i \in at : TRUE].deps = <<dep>>]

\* ResolvedDependencies.from_found_dependencies: the mapping after the first n
\* entries, as the list of its (key, group) items in insertion order
RECURSIVE MappingAfter(_, _)
MappingAfter(found_deps, n) ==
    IF n = 0 THEN <<>>
    ELSE LET mapping == MappingAfter(found_deps, n - 1)
             dep == found_deps[n]
             k == DependencyChild(dep.package, dep.version)
             at == { i \in 1..Len(mapping) : mapping[i].key = k }
         IN IF at = {}
            THEN Append(mapping, [key |-> k, deps |-> <<dep>>])
            ELSE [mapping EXCEPT ![CHOOSE i \in at : TRUE].deps = Append(@, dep)]

from_found_dependencies(found_deps) == MappingAfter(found_deps, Len(found_deps))

\* ResolvedSubproject.from_unresolved
ResolvedSubproject_from_unresolved(unres, method, errors, found_dependencies, ecosystem) ==
    [root_dir |-> unres.root_dir,
     dependency_source |-> unres.dependency_source,
     ecosystem |-> ecosystem,
     resolution_errors |-> errors,
     found_dependencies |-> from_found_dependencies(found_dependencies),
     resolution_method |-> method]

-----------------------------------------------------------------------------
(* subproject.py: to_stats_output.  A str is the sequence of its tokens:   *)
(* the parts of a path and the separator between them.  The joined text    *)
(* that is hashed is one string of characters.                             *)

\* DependencySource.get_display_paths
RECURSIVE get_display_paths(_)
get_display_paths(src) ==
    IF src.tag = "ManifestOnly" THEN <<src.mpath>>
    ELSE IF src.tag \in {"LockfileOnly", "ManifestLockfile"} THEN <<src.lpath>>
    ELSE IF src.sources = <<>> THEN <<>>
    ELSE get_display_paths(Head(src.sources))
         \o get_display_paths(MultiLockfileDependencySource(Tail(src.sources)))

\* DependencySource.to_stats_output: the DependencySourceFile entries
RECURSIVE source_to_stats_output(_)
source_to_stats_output(src) ==
    IF src.tag = "ManifestOnly" THEN <<[kind |-> src.mkind, path |-> src.mpath]>>
    ELSE IF src.tag = "LockfileOnly" THEN <<[kind |-> src.lkind, path |-> src.lpath]>>
    ELSE IF src.tag = "ManifestLockfile"
    THEN <<[kind |-> src.lkind, path |-> src.lpath], [kind |-> src.mkind, path |-> src.mpath]>>
    ELSE IF src.sources = <<>> THEN <<>>
    ELSE source_to_stats_output(Head(src.sources))
         \o source_to_stats_output(MultiLockfileDependencySource(Tail(src.sources)))

\* str(path): the parts joined by the separator
RECURSIVE Str(_)
Str(path) ==
    IF path = <<>> THEN <<".">>
    ELSE IF Len(path) = 1 THEN path
    ELSE <<Head(path), "/">> \o Str(Tail(path))

\* str.strip(): leading and trailing whitespace removed
RECURSIVE Strip(_)
Strip(str) ==
    IF str = <<>> THEN str
    ELSE IF Head(str) = " " THEN Strip(Tail(str))
    ELSE IF str[Len(str)] = " " THEN Strip(SubSeq(str, 1, Len(str) - 1))
    ELSE str

\* The tokens of the model in the order of Python's str comparison.  The one
\* token that is a prefix of another, lockfile1 of lockfile1s1, is followed in
\* a str by the separator or by nothing, both below the "s" that follows it in
\* the longer token, so comparing two strs token by token gives the order of
\* their characters.
TokenOrder ==
    <<" ", ".", "/", "index.js", "lib", "lockfile1", "lockfile1s1">>
    \o [k \in 1..(MaxChildren + MaxSubprojects - 1) |-> "lockfile" \o ToString(k + 1)]
    \o <<"main.py">>
    \o [k \in 1..(MaxChildren + MaxSubprojects) |-> "manifest" \o ToString(k)]
    \o <<"pkg", "repo">>
    \o [k \in 1..(MaxChildren + MaxSubprojects) |-> "s" \o ToString(k)]

TokenRank(token) == CHOOSE i \in 1..Len(TokenOrder) : TokenOrder[i] = token

\* a < b for two strs
StrLess(a, b) ==
    \E k \in 1..(Len(b)) :
        /\ \A i \in 1..(k - 1) : i <= Len(a) /\ a[i] = b[i]
        /\ \/ k = Len(a) + 1
           \/ k <= Len(a) /\ TokenRank(a[k]) < TokenRank(b[k])

\* sorted(strs)
RECURSIVE Sorted(_)
Sorted(strs) ==
    IF strs = <<>> THEN <<>>
    ELSE LET least == { i \in 1..Len(strs) : \A j \in 1..Len(strs) : ~StrLess(strs[j], strs[i]) }
             i == CHOOSE i \in least : \A j \in least : i <= j
         IN <<strs[i]>> \o Sorted(RemoveAt(strs, i))

\* "".join(strs): the characters of the strs one after another, with nothing
\* between two strs
RECURSIVE Join(_)
Join(strs) ==
    IF strs = <<>> THEN ""
    ELSE IF Head(strs) = <<>> THEN Join(Tail(strs))
    ELSE Head(Head(strs)) \o Join(<<Tail(Head(strs))>> \o Tail(strs))

\* hashlib.sha256(text).hexdigest(), taken as free of collisions: the digest is
\* given by the text it was computed from
sha256_hexdigest(text) == [sha256 |-> text]

\* faulty variant (sensitivity of C20): the paths are not sorted
normalized_paths_Unsorted(dependency_source) ==
    LET paths == get_display_paths(dependency_source)
    IN [i \in 1..Len(paths) |-> Strip(Str(paths[i]))]

\* lines 292-294
normalized_paths(dependency_source) ==
    LET paths == get_display_paths(dependency_source)
    IN Sorted([i \in 1..Len(paths) |-> Strip(Str(paths[i]))])

\* Subproject.to_stats_output
Subproject_to_stats_output(subproject) ==
    [subproject_id |-> sha256_hexdigest(Join(normalized_paths(subproject.dependency_source))),
     dependency_sources |-> source_to_stats_output(subproject.dependency_source),
     resolved_stats |-> None]

\* ResolvedDependencies.count: the dependencies of all groups of the mapping
RECURSIVE count(_)
count(mapping) ==
    IF mapping = <<>> THEN 0 ELSE Len(Head(mapping).deps) + count(Tail(mapping))

\* ResolvedSubproject.to_stats_output
ResolvedSubproject_to_stats_output(resolved_subproject) ==
    LET base_stats == Subproject_to_stats_output(resolved_subproject)
    IN [subproject_id |-> base_stats.subproject_id,
        dependency_sources |-> base_stats.dependency_sources,
        resolved_stats |->
            Some([ecosystem |-> resolved_subproject.ecosystem,
                  resolution_method |-> resolved_subproject.resolution_method,
                  dependency_count |-> count(resolved_subproject.found_dependencies)])]

-----------------------------------------------------------------------------
(* subproject.py: find_closest_subproject.  A path is the sequence of its  *)
(* parts; the directory the scan runs in is the empty sequence.            *)

\* [path, *path.parents]: the path itself, then its ancestors, nearest first
PathAndParents(path) ==
    [i \in 1..(Len(path) + 1) |-> SubSeq(path, 1, Len(path) + 1 - i)]

\* len(x.root_dir.parts)
Depth(candidate) == Len(candidate.root_dir)

\* faulty variant (sensitivity of C19): reverse=True is missing, the shallowest
\* candidates come first
RECURSIVE SortedCandidates_Ascending(_)
SortedCandidates_Ascending(candidates) ==
    IF candidates = <<>> THEN <<>>
    ELSE LET shallowest ==
                 { i \in 1..Len(candidates) :
                     \A j \in 1..Len(candidates) : Depth(candidates[j]) >= Depth(candidates[i]) }
             i == CHOOSE i \in shallowest : \A j \in shallowest : i <= j
         IN <<candidates[i]>> \o SortedCandidates_Ascending(RemoveAt(candidates, i))

\* lines 423-425: sorted(candidates, key=depth, reverse=True).  The sort is
\* stable: candidates of equal depth keep the order of the list.
RECURSIVE SortedCandidates(_)
SortedCandidates(candidates) ==
    IF candidates = <<>> THEN <<>>
    ELSE LET deepest ==
                 { i \in 1..Len(candidates) :
                     \A j \in 1..Len(candidates) : Depth(candidates[j]) <= Depth(candidates[i]) }
             i == CHOOSE i \in deepest : \A j \in deepest : i <= j
         IN <<candidates[i]>> \o SortedCandidates(RemoveAt(candidates, i))

\* line 429, for one candidate: some entry of [path, *path.parents] is its root
\* directory and its ecosystem is the requested one
CandidateMatches(candidate, path, ecosystem) ==
    \E k \in 1..(Len(path) + 1) :
        /\ candidate.root_dir = PathAndParents(path)[k]
        /\ candidate.ecosystem = ecosystem

\* lines 427-432: the first matching candidate of the sorted list, or None
find_closest_subproject(path, ecosystem, candidates) ==
    LET sorted_candidates == SortedCandidates(candidates)
        matching == { i \in 1..Len(sorted_candidates) :
                        CandidateMatches(sorted_candidates[i], path, ecosystem) }
    IN IF matching = {} THEN None
       ELSE Some(sorted_candidates[CHOOSE i \in matching : \A j \in matching : i <= j])

-----------------------------------------------------------------------------
(* resolve_subprojects.py: filter_changed_subprojects *)

\* DependencySource.get_all_source_files, as a list
RECURSIVE get_all_source_files(_)
get_all_source_files(src) ==
    IF src.tag = "ManifestOnly" THEN <<src.mpath>>
    ELSE IF src.tag = "LockfileOnly" THEN <<src.lpath>>
    ELSE IF src.tag = "ManifestLockfile" THEN <<src.mpath, src.lpath>>
    ELSE IF src.sources = <<>> THEN <<>>
    ELSE get_all_source_files(Head(src.sources))
         \o get_all_source_files(MultiLockfileDependencySource(Tail(src.sources)))

\* faulty variant (sensitivity of C16): a subproject counts only when all of its
\* source files are targets
DirectlyRelevant_AllFiles(targets, subprojects) ==
    { subprojects[i] : i \in
        { i \in 1..Len(subprojects) :
            Range(get_all_source_files(subprojects[i].dependency_source)) \subseteq targets } }

\* lines 75-79: the subprojects one of whose source files is a target.  The
\* result is a set of Subproject values (a frozen dataclass, compared by value).
DirectlyRelevant(targets, subprojects) ==
    { subprojects[i] : i \in
        { i \in 1..Len(subprojects) :
            targets \cap Range(get_all_source_files(subprojects[i].dependency_source)) # {} } }

\* faulty variant (sensitivity of C17): the shortcut is never taken
AllAlreadyRelevant_Never(relevant, subprojects) == FALSE

\* line 81: len(relevant_subprojects) == len(subprojects)
AllAlreadyRelevant(relevant, subprojects) == Cardinality(relevant) = Len(subprojects)

\* the entries of xs that are not in list, appended to list in order
RECURSIVE AppendNew(_, _)
AppendNew(list, xs) ==
    IF xs = <<>> THEN list
    ELSE AppendNew(IF Head(xs) \in Range(list) THEN list ELSE Append(list, Head(xs)),
                   Tail(xs))

\* lines 88-97: ecosystems_by_language[language] after the first n rules
RECURSIVE EcosystemsAfter(_, _, _)
EcosystemsAfter(rules, n, language) ==
    IF n = 0 THEN <<>>
    ELSE IF language \in Range(rules[n].languages)
    THEN AppendNew(EcosystemsAfter(rules, n - 1, language), rules[n].ecosystems)
    ELSE EcosystemsAfter(rules, n - 1, language)

ecosystems_by_language(rules) ==
    [language \in UNION { Range(rules[n].languages) : n \in 1..Len(rules) } |->
        EcosystemsAfter(rules, Len(rules), language)]

\* target_manager.get_files_for_language(lang).kept
KeptFiles(files, language) ==
    IF language \in DOMAIN files THEN files[language] ELSE {}

\* lines 100-113: the find_closest_subproject calls made, each with its result
ClosestCalls(files, rules, subprojects) ==
    LET by_language == ecosystems_by_language(rules) IN
    { [path |-> code_file, ecosystem |-> by_language[language][k],
       result |-> find_closest_subproject(code_file, by_language[language][k], subprojects)] :
        <<language, code_file, k>> \in
            { t \in (DOMAIN by_language) \X (UNION { KeptFiles(files, l) : l \in DOMAIN by_language })
                     \X (1..Cardinality(Ecosystems)) :
                /\ t[2] \in KeptFiles(files, t[1])
                /\ t[3] <= Len(by_language[t[1]]) } }

\* faulty variant (sensitivity of C18): the selection comes out in reverse order
InOrder_Reversed(subprojects, keep) ==
    LET kept == SelectSeq(subprojects, LAMBDA x : x \in keep)
    IN [i \in 1..Len(kept) |-> kept[Len(kept) + 1 - i]]

\* lines 85, 117, 118: [s for s in subprojects if s in keep]
InOrder(subprojects, keep) == SelectSeq(subprojects, LAMBDA x : x \in keep)

\* faulty variant (sensitivity of C15): the irrelevant subprojects are left out
\* of the unresolved list
SkippedRecords_Dropped(ordered_irrelevant) == <<>>

\* lines 119-122
SkippedRecords(ordered_irrelevant) ==
    [i \in 1..Len(ordered_irrelevant) |->
        UnresolvedSubproject_from_subproject(ordered_irrelevant[i], SKIPPED, <<>>)]

\* the returned pair, and the find_closest_subproject calls made on the way
filter_changed_subprojects(targets, files, rules, subprojects) ==
    LET direct == DirectlyRelevant(targets, subprojects)
        made == ClosestCalls(files, rules, subprojects)
        relevant == direct \cup { Get(c.result) : c \in { c \in made : ~IsNone(c.result) } }
    IN IF AllAlreadyRelevant(direct, subprojects)
       THEN [relevant |-> InOrder(subprojects, direct), irrelevant |-> <<>>, calls |-> {}]
       ELSE [relevant |-> InOrder(subprojects, relevant),
             irrelevant |-> SkippedRecords(InOrder(subprojects, Range(subprojects) \ relevant)),
             calls |-> made]

-----------------------------------------------------------------------------
(* The run: resolve_subprojects' dispatch loop, lines 172-230 *)

\* what the filter reads, and what it and to_stats_output leave behind
find_vars == <<dependency_source_files, matchers, matcher_i, used_files,
               unresolved_subprojects, offered>>
graph_vars == <<flat_deps, graph, directs, direct_i, stack, already_printed,
                printed_in_graph, printed, expanded>>
scan_vars == <<resolve_untargeted_subprojects, all_dependency_source_targets, code_files,
               dependency_aware_rules, found_subprojects, closest_calls, stats,
               find_vars, graph_vars>>
in_vars == <<allow_dynamic_resolution, ptt_enabled, relevant_subprojects, scan_vars>>
out_vars == <<unresolved, resolved, dependency_targets>>
call_vars == <<calls, rpc_seen, parser_seen, produced, obtained>>

NoRpc == [kind |-> "none", n |-> 0, first |-> ResolutionError(<<>>),
          ret |-> RpcReturn(None, <<>>, <<>>)]
NoParse == [called |-> FALSE, deps |-> <<>>, errors |-> <<>>]

CallsReset ==
    /\ calls' = <<>>
    /\ rpc_seen' = NoRpc
    /\ parser_seen' = NoParse
    /\ produced' = <<>>
    /\ obtained' = FALSE

\* a resolve_dependency_source call returns r: to the multi-lockfile loop when
\* it was made for a child, to the dispatch loop otherwise
Deliver(r) ==
    IF frame.child > 0
    THEN /\ frame' = Accumulate(frame, r)
         /\ child_results' = Append(child_results, r)
         /\ pc' = "multi"
         /\ UNCHANGED result
    ELSE /\ result' = r
         /\ pc' = "resolved"
         /\ UNCHANGED <<frame, child_results>>

\* an exception leaves resolve_dependency_source; nothing in resolve_subprojects
\* catches it
Raise(exc) ==
    /\ pc' = "crashed"
    /\ exception' = exc
    /\ UNCHANGED <<frame, result, child_results>>

\* faulty variant (sensitivity of C14): the record says the resolution failed
UnsupportedRecord_AsFailed(subproject) ==
    UnresolvedSubproject_from_subproject(subproject, FAILED, <<>>)

\* lines 195-199
UnsupportedRecord(subproject) ==
    UnresolvedSubproject_from_subproject(subproject, UNSUPPORTED, <<>>)

\* lines 192-200: a subproject without ecosystem is not dispatched
MarkUnsupported ==
    /\ pc = "loop"
    /\ item_i < Len(relevant_subprojects)
    /\ LET subproject == relevant_subprojects[item_i + 1]
           rec == UnsupportedRecord(subproject)
       IN /\ subproject.ecosystem = NoneV
          /\ unresolved' = Append(unresolved, rec)
          /\ history' = Append(history,
                [dispatched |-> FALSE, kind |-> "unresolved", record |-> rec,
                 calls |-> <<>>, produced |-> <<>>, obtained |-> FALSE,
                 result |-> Result(None, <<>>, <<>>)])
    /\ item_i' = item_i + 1
    /\ UNCHANGED <<in_vars, pc, frame, result, resolved, dependency_targets,
                   call_vars, child_results, exception>>

\* lines 201-205 and resolve_dependency_source lines 336-358: the call is made
\* and runs to its first external call or to its return
Dispatch ==
    /\ pc = "loop"
    /\ item_i < Len(relevant_subprojects)
    /\ LET subproject == relevant_subprojects[item_i + 1]
           dep_source == subproject.dependency_source
           f == Frame(dep_source, allow_dynamic_resolution, ptt_enabled)
           e == HandleLockfileEntry(dep_source, allow_dynamic_resolution, ptt_enabled)
       IN /\ subproject.ecosystem # NoneV
          /\ IF HasLockfile(dep_source)
             THEN IF e.next = "KeyError"
                  THEN /\ pc' = "crashed" /\ exception' = "KeyError"
                       /\ frame' = f /\ result' = Result(None, <<>>, <<>>)
                  ELSE /\ frame' = [f EXCEPT
                            !.use_nondynamic_ocaml_parsing = e.use_nondynamic_ocaml_parsing,
                            !.use_dynamic_resolution = e.use_dynamic_resolution]
                       /\ pc' = IF e.next = "return" THEN "resolved" ELSE e.next
                       /\ result' = Result(None, <<>>, <<>>)
                       /\ UNCHANGED exception
             ELSE IF dep_source.tag = "MultiLockfile"
             THEN /\ frame' = [f EXCEPT !.child = 1]
                  /\ pc' = "multi"
                  /\ result' = Result(None, <<>>, <<>>)
                  /\ UNCHANGED exception
             ELSE IF ManifestOnlyResolvable(dep_source, allow_dynamic_resolution)
             THEN /\ frame' = f
                  /\ pc' = "rpc"
                  /\ result' = Result(None, <<>>, <<>>)
                  /\ UNCHANGED exception
             ELSE /\ frame' = f
                  /\ pc' = "resolved"
                  /\ result' = Result(None, <<>>, <<>>)
                  /\ UNCHANGED exception
    /\ CallsReset
    /\ child_results' = <<>>
    /\ UNCHANGED <<in_vars, item_i, out_vars, history>>

\* _handle_multi_lockfile_source, lines 217-247: the loop reaches child
\* frame.child, whose resolve_dependency_source call (dynamic resolution and PTT
\* off) runs to its first external call or to its return; after the last child
\* the aggregate is returned
MultiNext ==
    /\ pc = "multi"
    /\ IF frame.child > Len(frame.dep_source.sources)
       THEN /\ result' = MultiLockfileResult(frame)
            /\ pc' = "resolved"
            /\ UNCHANGED <<frame, child_results, exception>>
       ELSE LET lockfile_source == frame.dep_source.sources[frame.child]
                e == ChildEntry(frame, lockfile_source)
            IN IF e.next = "KeyError"
               THEN Raise("KeyError")
               ELSE IF e.next = "return"
               THEN /\ frame' = Accumulate(frame, Result(None, <<>>, <<>>))
                    /\ child_results' = Append(child_results, Result(None, <<>>, <<>>))
                    /\ UNCHANGED <<pc, result, exception>>
               ELSE /\ frame' = [frame EXCEPT
                            !.use_nondynamic_ocaml_parsing = e.use_nondynamic_ocaml_parsing,
                            !.use_dynamic_resolution = e.use_dynamic_resolution]
                    /\ pc' = e.next
                    /\ UNCHANGED <<result, child_results, exception>>
    /\ UNCHANGED <<in_vars, item_i, out_vars, call_vars, history>>

\* _resolve_dependencies_rpc, lines 119-188, and its caller's continuation
\* (_handle_manifest_only_source lines 196-202, _handle_lockfile_source lines
\* 289-307): the remote call ends with some response
RpcReturnsWith(responses) ==
    /\ pc = "rpc"
    /\ \E response \in responses :
        LET dep_source == CurrentSource(frame)
            rpc == _resolve_dependencies_rpc(dep_source, response)
            h == HandleLockfileAfterRpc(dep_source, frame.use_nondynamic_ocaml_parsing, rpc)
        IN /\ calls' = Append(calls, "rpc")
           /\ rpc_seen' = [kind |-> response.kind, n |-> response.n,
                           first |-> response.first, ret |-> rpc]
           /\ produced' = produced \o rpc.errors
           /\ obtained' = (obtained \/ (~IsNone(rpc.deps) /\ Len(Get(rpc.deps)) > 0))
           /\ IF rpc.raised # NoneV
              THEN Raise(rpc.raised)
              ELSE /\ UNCHANGED exception
                   /\ IF dep_source.tag = "ManifestOnly"
                      THEN Deliver(HandleManifestOnlyAfterRpc(rpc))
                      ELSE IF h.next = "parse"
                      THEN /\ pc' = "parse"
                           /\ UNCHANGED <<frame, result, child_results>>
                      ELSE Deliver(h.result)
    /\ UNCHANGED <<in_vars, item_i, out_vars, parser_seen, history>>

RpcReturns == RpcReturnsWith(RpcResponses)

\* _handle_lockfile_source, lines 310-322: the static parser returns
\* the parser's two kinds of outcome, used in runs of several subprojects
FewParserOutputs(lockfile_path) ==
    { [deps |-> <<>>, errors |-> <<DependencyParserError(1, lockfile_path)>>],
      [deps |-> <<FoundDependency("parser", 1)>>, errors |-> <<>>] }

ParserReturnsWith(few) ==
    /\ pc = "parse"
    /\ LET dep_source == CurrentSource(frame)
           outputs == IF few THEN FewParserOutputs(dep_source.lpath)
                             ELSE ParserOutputs(dep_source.lpath) IN
       \E parsed \in outputs :
           /\ calls' = Append(calls, "parser")
           /\ parser_seen' = [called |-> TRUE, deps |-> parsed.deps, errors |-> parsed.errors]
           /\ produced' = produced \o parsed.errors
           /\ obtained' = (obtained \/ Len(parsed.deps) > 0)
           /\ Deliver(HandleLockfileAfterParse(dep_source, parsed))
    /\ UNCHANGED <<in_vars, item_i, out_vars, rpc_seen, history, exception>>

ParserReturns == ParserReturnsWith(FALSE)

\* faulty variant (sensitivity of C13): the list of the ecosystem is replaced
\* instead of extended
StoreResolved_Overwrites(by_ecosystem, resolved_subproject) ==
    [e \in DOMAIN by_ecosystem \cup {resolved_subproject.ecosystem} |->
        IF e = resolved_subproject.ecosystem THEN <<resolved_subproject>>
        ELSE by_ecosystem[e]]

\* lines 215-217: the record is appended to the list of its own ecosystem
StoreResolved(by_ecosystem, resolved_subproject) ==
    IF resolved_subproject.ecosystem \in DOMAIN by_ecosystem
    THEN [by_ecosystem EXCEPT ![resolved_subproject.ecosystem] =
              Append(@, resolved_subproject)]
    ELSE by_ecosystem @@ (resolved_subproject.ecosystem :> <<resolved_subproject>>)

\* lines 206-226: the result of the call is recorded
Record ==
    /\ pc = "resolved"
    /\ LET subproject == relevant_subprojects[item_i + 1]
           resolved_info == result.resolved_info
           resolved_subproject ==
               ResolvedSubproject_from_unresolved(subproject,
                   Get(resolved_info).method, result.errors,
                   Get(resolved_info).deps, subproject.ecosystem)
           failed == UnresolvedSubproject_from_subproject(subproject, FAILED, result.errors)
       IN /\ dependency_targets' = dependency_targets \o result.targets
          /\ IF ~IsNone(resolved_info)
             THEN /\ resolved' = StoreResolved(resolved, resolved_subproject)
                  /\ UNCHANGED unresolved
             ELSE /\ unresolved' = Append(unresolved, failed)
                  /\ UNCHANGED resolved
          /\ history' = Append(history,
                [dispatched |-> TRUE,
                 kind |-> IF IsNone(resolved_info) THEN "unresolved" ELSE "resolved",
                 record |-> IF IsNone(resolved_info) THEN failed ELSE resolved_subproject,
                 calls |-> calls, produced |-> produced, obtained |-> obtained,
                 result |-> result])
    /\ item_i' = item_i + 1
    /\ pc' = "loop"
    /\ frame' = NoFrame
    /\ result' = Result(None, <<>>, <<>>)
    /\ CallsReset
    /\ child_results' = <<>>
    /\ UNCHANGED <<in_vars, exception>>

\* line 230: the loop is over and the three collections are returned
Finish ==
    /\ pc = "loop"
    /\ item_i = Len(relevant_subprojects)
    /\ pc' = "done"
    /\ UNCHANGED <<in_vars, item_i, frame, result, out_vars, call_vars, history,
                   child_results, exception>>

loop_vars == <<item_i, frame, result, resolved, dependency_targets, call_vars,
               history, child_results, exception>>

\* lines 163-165: with resolve_untargeted_subprojects every discovered
\* subproject is relevant
ResolveAll ==
    /\ pc = "start"
    /\ resolve_untargeted_subprojects
    /\ relevant_subprojects' = found_subprojects
    /\ unresolved' = <<>>
    /\ pc' = "loop"
    /\ UNCHANGED <<allow_dynamic_resolution, ptt_enabled, scan_vars, loop_vars>>

\* lines 166-169 and 175: the discovered list is filtered; the irrelevant
\* subprojects are the first entries of the unresolved list
Filter ==
    /\ pc = "start"
    /\ ~resolve_untargeted_subprojects
    /\ LET filtered == filter_changed_subprojects(all_dependency_source_targets,
                            code_files, dependency_aware_rules, found_subprojects)
       IN /\ relevant_subprojects' = filtered.relevant
          /\ unresolved' = filtered.irrelevant
          /\ closest_calls' = filtered.calls
    /\ pc' = "loop"
    /\ UNCHANGED <<allow_dynamic_resolution, ptt_enabled, resolve_untargeted_subprojects,
                   all_dependency_source_targets, code_files, dependency_aware_rules,
                   found_subprojects, stats, find_vars, graph_vars, loop_vars>>

-----------------------------------------------------------------------------
(* Inputs *)

\* A pathlib.Path is the sequence of its parts.  The subproject at position pos
\* of the discovered list has its own directory and its own files.
RootDir(pos) == <<"s" \o ToString(pos)>>
ManifestPath(pos, k) == Append(RootDir(pos), "manifest" \o ToString(k))
LockfilePath(pos, k) == Append(RootDir(pos), "lockfile" \o ToString(k))

ManifestOnlySources(pos) ==
    { ManifestOnlyDependencySource(mk, ManifestPath(pos, 1)) : mk \in ManifestKinds }

LockfileOnlySources(pos) ==
    { LockfileOnlyDependencySource(lk, LockfilePath(pos, 1)) : lk \in LockfileKinds }

ManifestLockfileSources(pos) ==
    { ManifestLockfileDependencySource(mk, ManifestPath(pos, 1), lk, LockfilePath(pos, 1)) :
        mk \in ManifestKinds, lk \in LockfileKinds }

\* the k-th child of a MultiLockfile source: one child per way its resolution
\* can go (a kind the dynamic list names, a pair the delegated-parsing list
\* names, a kind without parser, a kind outside the registry)
ChildSources(pos, k) ==
    { LockfileOnlyDependencySource(lk, LockfilePath(pos, k)) :
        lk \in {"PipRequirementsTxt", "UvLock", OtherLockfileKind} }
    \cup
    { ManifestLockfileDependencySource("PackageJson", ManifestPath(pos, k),
                                       "NpmPackageLockJson", LockfilePath(pos, k)) }

RECURSIVE ChildLists(_, _)
ChildLists(pos, n) ==
    IF n = 0 THEN {<<>>}
    ELSE { Append(l, c) : l \in ChildLists(pos, n - 1), c \in ChildSources(pos, n) }

MultiLockfileSources(pos) ==
    { MultiLockfileDependencySource(l) :
        l \in UNION { ChildLists(pos, n) : n \in 0..MaxChildren } }

AllSources(pos) ==
    ManifestOnlySources(pos) \cup LockfileOnlySources(pos)
    \cup ManifestLockfileSources(pos) \cup MultiLockfileSources(pos)

\* find_subprojects is not running
FindNotStarted ==
    /\ dependency_source_files = {}
    /\ matchers = <<>>
    /\ matcher_i = 0
    /\ used_files = {}
    /\ unresolved_subprojects = <<>>
    /\ offered = <<>>

\* no list has been handed to from_found_dependencies and nothing is printed
NoGraph ==
    /\ flat_deps = <<>>
    /\ graph = <<>>
    /\ directs = <<>>
    /\ direct_i = 0
    /\ stack = <<>>
    /\ already_printed = {}
    /\ printed_in_graph = {}
    /\ printed = <<>>
    /\ expanded = <<>>

\* the state at line 172 of a run with resolve_untargeted_subprojects=True:
\* every discovered subproject is relevant and the filter did not run
InitRun(subprojects) ==
    /\ allow_dynamic_resolution \in BOOLEAN
    /\ ptt_enabled \in BOOLEAN
    /\ resolve_untargeted_subprojects = TRUE
    /\ all_dependency_source_targets = {}
    /\ code_files = <<>>
    /\ dependency_aware_rules = <<>>
    /\ found_subprojects \in subprojects
    /\ relevant_subprojects = found_subprojects
    /\ closest_calls = {}
    /\ child_results = <<>>
    /\ stats = <<>>
    /\ item_i = 0
    /\ pc = "loop"
    /\ frame = NoFrame
    /\ result = Result(None, <<>>, <<>>)
    /\ unresolved = <<>>
    /\ resolved = [e \in {} |-> <<>>]
    /\ dependency_targets = <<>>
    /\ calls = <<>>
    /\ rpc_seen = NoRpc
    /\ parser_seen = NoParse
    /\ produced = <<>>
    /\ obtained = FALSE
    /\ history = <<>>
    /\ FindNotStarted
    /\ NoGraph
    /\ exception = NoneV

\* one subproject with any dependency source, of a supported ecosystem or of none
Init ==
    InitRun({ <<Subproject(RootDir(1), src, eco)>> :
                src \in AllSources(1), eco \in {"Npm", NoneV} })

Next ==
    \/ MarkUnsupported
    \/ Dispatch
    \/ MultiNext
    \/ RpcReturns
    \/ ParserReturns
    \/ Record
    \/ Finish

Spec == Init /\ [][Next]_vars

\* the subprojects a run of several is made of: one per way a resolution ends
PoolSubprojects(pos) ==
    { Subproject(RootDir(pos),
                 LockfileOnlyDependencySource("PipRequirementsTxt", LockfilePath(pos, 1)),
                 "Pypi"),
      Subproject(RootDir(pos),
                 ManifestLockfileDependencySource("PackageJson", ManifestPath(pos, 1),
                                                  "NpmPackageLockJson", LockfilePath(pos, 1)),
                 "Npm"),
      Subproject(RootDir(pos),
                 LockfileOnlyDependencySource("UvLock", LockfilePath(pos, 1)),
                 "Pypi"),
      Subproject(RootDir(pos),
                 ManifestOnlyDependencySource("PomXml", ManifestPath(pos, 1)),
                 "Maven"),
      Subproject(RootDir(pos),
                 MultiLockfileDependencySource(
                     <<LockfileOnlyDependencySource("YarnLock", LockfilePath(pos, 1))>>),
                 "Npm"),
      Subproject(RootDir(pos),
                 LockfileOnlyDependencySource("ConanLock", LockfilePath(pos, 1)),
                 NoneV),
      Subproject(RootDir(pos),
                 LockfileOnlyDependencySource(OtherLockfileKind, LockfilePath(pos, 1)),
                 "Npm") }

RECURSIVE SubprojectLists(_)
SubprojectLists(n) ==
    IF n = 0 THEN {<<>>}
    ELSE { Append(l, s) : l \in SubprojectLists(n - 1), s \in PoolSubprojects(n) }

\* nothing has been dispatched yet
LoopNotStarted ==
    /\ relevant_subprojects = <<>>
    /\ item_i = 0
    /\ frame = NoFrame
    /\ result = Result(None, <<>>, <<>>)
    /\ unresolved = <<>>
    /\ resolved = [e \in {} |-> <<>>]
    /\ dependency_targets = <<>>
    /\ calls = <<>>
    /\ rpc_seen = NoRpc
    /\ parser_seen = NoParse
    /\ produced = <<>>
    /\ obtained = FALSE
    /\ history = <<>>
    /\ closest_calls = {}
    /\ child_results = <<>>
    /\ stats = <<>>
    /\ exception = NoneV

\* a rule, as far as the filter reads it: rule.languages and rule.ecosystems
Rule(languages, ecosystems) == [languages |-> languages, ecosystems |-> ecosystems]

\* the first source file of every subproject of a list
FirstSourceFiles(subprojects) ==
    { get_all_source_files(subprojects[i].dependency_source)[1] :
        i \in { i \in 1..Len(subprojects) :
                   get_all_source_files(subprojects[i].dependency_source) # <<>> } }

\* a run over up to MaxSubprojects subprojects, from line 163 on.  When the
\* filter runs, any of the subprojects' first source files may be a target,
\* there may be a javascript target in the first subproject's directory, and
\* one rule declares javascript for Npm.
InitMany ==
    /\ allow_dynamic_resolution \in BOOLEAN
    /\ ptt_enabled \in BOOLEAN
    /\ resolve_untargeted_subprojects \in BOOLEAN
    /\ found_subprojects \in UNION { SubprojectLists(n) : n \in 0..MaxSubprojects }
    /\ all_dependency_source_targets \in
          IF resolve_untargeted_subprojects THEN {{}}
          ELSE SUBSET FirstSourceFiles(found_subprojects)
    /\ code_files \in
          IF resolve_untargeted_subprojects THEN {[js |-> {}]}
          ELSE {[js |-> {}], [js |-> {Append(RootDir(1), "index.js")}]}
    /\ dependency_aware_rules = <<Rule(<<"js">>, <<"Npm">>)>>
    /\ pc = "start"
    /\ LoopNotStarted
    /\ FindNotStarted
    /\ NoGraph

\* In a run of several subprojects each external call has one outcome per way
\* its caller goes on: the remote call raises, answers with an empty list, with
\* an Err, with an Ok without dependencies or with an Ok carrying a dependency
\* and a warning; the parser returns an error alone or a dependency alone.
FewRpcResponses ==
    { NoResponse("raise"), NoResponse("list"),
      [kind |-> "list", n |-> 1, first |-> ResolutionError(<<1>>)],
      [kind |-> "list", n |-> 1, first |-> ResolutionOk(<<>>, <<>>)],
      [kind |-> "list", n |-> 1,
       first |-> ResolutionOk(<<FoundDependency("engine", 1)>>, <<1>>)] }

RpcReturnsFew == RpcReturnsWith(FewRpcResponses)
ParserReturnsFew == ParserReturnsWith(TRUE)

NextMany ==
    \/ ResolveAll
    \/ Filter
    \/ MarkUnsupported
    \/ Dispatch
    \/ MultiNext
    \/ RpcReturnsFew
    \/ ParserReturnsFew
    \/ Record
    \/ Finish

SpecMany == InitMany /\ [][NextMany]_vars

\* Inputs of filter_changed_subprojects on its own: subprojects in nested and
\* sibling directories, several in one directory, of two ecosystems or of none
Dirs == { <<"repo">>, <<"repo", "pkg">>, <<"repo", "lib">> }

FilterPool(pos) ==
    { Subproject(dir,
                 LockfileOnlyDependencySource("NpmPackageLockJson",
                                              Append(dir, "lockfile" \o ToString(pos))),
                 eco) : dir \in Dirs, eco \in {"Npm", NoneV} }
    \cup
    { Subproject(dir,
                 ManifestLockfileDependencySource(
                     "RequirementsIn", Append(dir, "manifest" \o ToString(pos)),
                     "PipRequirementsTxt", Append(dir, "lockfile" \o ToString(pos))),
                 "Pypi") : dir \in Dirs }

RECURSIVE FilterLists(_)
FilterLists(n) ==
    IF n = 0 THEN {<<>>}
    ELSE { Append(l, s) : l \in FilterLists(n - 1), s \in FilterPool(n) }

\* the kept code files of each language
CodeFileChoices ==
    { [js |-> {}, python |-> {}],
      [js |-> {<<"repo", "pkg", "index.js">>}, python |-> {}],
      [js |-> {<<"repo", "index.js">>, <<"repo", "pkg", "index.js">>}, python |-> {}],
      [js |-> {}, python |-> {<<"repo", "lib", "main.py">>}] }

RuleChoices ==
    { <<>>,
      <<Rule(<<"js">>, <<"Npm">>)>>,
      <<Rule(<<"js">>, <<"Npm">>), Rule(<<"js", "python">>, <<"Pypi", "Npm">>)>> }

InitFilter ==
    /\ allow_dynamic_resolution = FALSE
    /\ ptt_enabled = FALSE
    /\ resolve_untargeted_subprojects = FALSE
    /\ found_subprojects \in UNION { FilterLists(n) : n \in 0..MaxSubprojects }
    /\ all_dependency_source_targets \in SUBSET FirstSourceFiles(found_subprojects)
    /\ code_files \in CodeFileChoices
    /\ dependency_aware_rules \in RuleChoices
    /\ pc = "start"
    /\ LoopNotStarted
    /\ FindNotStarted
    /\ NoGraph

\* filter_changed_subprojects applied to every such input
SpecFilter == InitFilter /\ [][Filter]_vars

-----------------------------------------------------------------------------
(* to_stats_output applied to subprojects and to the records built from    *)
(* them.  stats holds one entry per call: the position of the subproject,  *)
(* whether the call was made on a ResolvedSubproject, and the value.       *)

stats_fixed == <<allow_dynamic_resolution, ptt_enabled, relevant_subprojects,
                 resolve_untargeted_subprojects, all_dependency_source_targets,
                 code_files, dependency_aware_rules, found_subprojects, closest_calls,
                 pc, unresolved, find_vars, graph_vars, loop_vars>>

\* Subproject.to_stats_output is called on one of the subprojects
ToStats ==
    /\ pc = "stats"
    /\ Len(stats) < MaxStatsCalls
    /\ \E i \in 1..Len(found_subprojects) :
          stats' = Append(stats,
                      [of |-> i, resolved |-> FALSE,
                       out |-> Subproject_to_stats_output(found_subprojects[i])])
    /\ UNCHANGED stats_fixed

\* a ResolvedSubproject is built from one of the subprojects and its
\* to_stats_output is called
ToStatsResolved ==
    /\ pc = "stats"
    /\ Len(stats) < MaxStatsCalls
    /\ \E i \in 1..Len(found_subprojects), deps \in DependencyLists("parser") :
          LET resolved_subproject ==
                  ResolvedSubproject_from_unresolved(found_subprojects[i],
                      LOCKFILE_PARSING, <<>>, deps, found_subprojects[i].ecosystem)
          IN stats' = Append(stats,
                         [of |-> i, resolved |-> TRUE,
                          out |-> ResolvedSubproject_to_stats_output(resolved_subproject)])
    /\ UNCHANGED stats_fixed

\* the children of a MultiLockfile source rearranged by the permutation p
Permuted(sources, p) == [i \in 1..Len(sources) |-> sources[p[i]]]

\* a lockfile in a directory of the subproject at pos that is named by the
\* name of the first lockfile followed by the name of the root directory
NestedLockfilePath(pos) ==
    RootDir(pos) \o <<"lockfile1" \o RootDir(pos)[1], "lockfile2">>

\* a MultiLockfile source, and then the same children in another order, the
\* same children without the last one, or a single lockfile in a nested
\* directory
StatsPairs ==
    { <<Subproject(RootDir(1), MultiLockfileDependencySource(l), "Npm"),
        Subproject(RootDir(1), MultiLockfileDependencySource(m), "Npm")>> :
        <<l, m>> \in
            UNION { ({l} \X ({ Permuted(l, p) : p \in Permutations(1..Len(l)) }
                             \cup {SubSeq(l, 1, Len(l) - 1)})) :
                    l \in UNION { ChildLists(1, n) : n \in 1..MaxChildren } } }
    \cup
    { <<Subproject(RootDir(1), MultiLockfileDependencySource(l), "Pypi"),
        Subproject(RootDir(1),
                   LockfileOnlyDependencySource("PipRequirementsTxt", NestedLockfilePath(1)),
                   "Pypi")>> :
        l \in UNION { ChildLists(1, n) : n \in 1..MaxChildren } }

InitStats ==
    /\ allow_dynamic_resolution = FALSE
    /\ ptt_enabled = FALSE
    /\ resolve_untargeted_subprojects = TRUE
    /\ all_dependency_source_targets = {}
    /\ code_files = <<>>
    /\ dependency_aware_rules = <<>>
    /\ found_subprojects \in StatsPairs
    /\ pc = "stats"
    /\ LoopNotStarted
    /\ FindNotStarted
    /\ NoGraph

NextStats ==
    \/ ToStats
    \/ ToStatsResolved

SpecStats == InitStats /\ [][NextStats]_vars

-----------------------------------------------------------------------------
(* resolve_subprojects.py: find_subprojects, one matcher per step.  The    *)
(* matchers (semdep.subproject_matchers) are external to the three files.  *)

\* the dependency source files of the scan: a manifest and a lockfile in each
\* of two directories
DepFiles == { ManifestPath(d, 1) : d \in 1..2 } \cup { LockfilePath(d, 1) : d \in 1..2 }

\* the subproject a matcher makes of the files it uses in directory d
MatchedSubproject(d, files) ==
    Subproject(RootDir(d),
        IF ManifestPath(d, 1) \in files /\ LockfilePath(d, 1) \in files
        THEN ManifestLockfileDependencySource("PackageJson", ManifestPath(d, 1),
                                              "NpmPackageLockJson", LockfilePath(d, 1))
        ELSE IF LockfilePath(d, 1) \in files
        THEN LockfileOnlyDependencySource("NpmPackageLockJson", LockfilePath(d, 1))
        ELSE ManifestOnlyDependencySource("PackageJson", ManifestPath(d, 1)),
        "Npm")

\* the directories that hold one of the files, in order
DirsOf(files) ==
    SelectSeq(<<1, 2>>, LAMBDA d : \E f \in files : f[1] = RootDir(d)[1])

\* SubprojectMatcher.make_subprojects(candidates): the matcher uses some of the
\* files it is passed and places each of them in one subproject it returns
MatcherOutputs(candidates) ==
    { [new_subprojects |-> [i \in 1..Len(DirsOf(new_used_files)) |->
                               MatchedSubproject(DirsOf(new_used_files)[i], new_used_files)],
       new_used_files |-> new_used_files] :
        new_used_files \in SUBSET candidates }

\* faulty variant (sensitivity of C22): every matcher is passed every file
Candidates_All(files, used) == files

\* line 47: dependency_source_files - used_files
Candidates(files, used) == files \ used

find_fixed == <<allow_dynamic_resolution, ptt_enabled, relevant_subprojects,
                resolve_untargeted_subprojects, all_dependency_source_targets,
                code_files, dependency_aware_rules, closest_calls, stats,
                unresolved, graph_vars, loop_vars>>

\* lines 44-49: one iteration of the loop over the matchers
MakeSubprojects ==
    /\ pc = "find"
    /\ matcher_i < Len(matchers)
    /\ LET candidates == Candidates(dependency_source_files, used_files)
       IN \E made \in MatcherOutputs(candidates) :
             /\ used_files' = used_files \cup made.new_used_files
             /\ unresolved_subprojects' = unresolved_subprojects \o made.new_subprojects
             /\ offered' = Append(offered,
                               [matcher |-> matchers[matcher_i + 1],
                                candidates |-> candidates,
                                new_subprojects |-> made.new_subprojects,
                                new_used_files |-> made.new_used_files])
    /\ matcher_i' = matcher_i + 1
    /\ UNCHANGED <<find_fixed, dependency_source_files, matchers, found_subprojects, pc>>

\* line 50, and line 160 of resolve_subprojects: the list is returned
ReturnSubprojects ==
    /\ pc = "find"
    /\ matcher_i = Len(matchers)
    /\ found_subprojects' = unresolved_subprojects
    /\ pc' = "start"
    /\ UNCHANGED <<find_fixed, find_vars>>

\* find_subprojects is called with any set of the files and up to MaxMatchers
\* matchers
InitFind ==
    /\ allow_dynamic_resolution = FALSE
    /\ ptt_enabled = FALSE
    /\ resolve_untargeted_subprojects = TRUE
    /\ all_dependency_source_targets = {}
    /\ code_files = <<>>
    /\ dependency_aware_rules = <<>>
    /\ found_subprojects = <<>>
    /\ pc = "find"
    /\ LoopNotStarted
    /\ NoGraph
    /\ dependency_source_files \in SUBSET DepFiles
    /\ matchers \in { [i \in 1..n |-> i] : n \in 0..MaxMatchers }
    /\ matcher_i = 0
    /\ used_files = {}
    /\ unresolved_subprojects = <<>>
    /\ offered = <<>>

NextFind ==
    \/ MakeSubprojects
    \/ ReturnSubprojects

SpecFind == InitFind /\ [][NextFind]_vars

-----------------------------------------------------------------------------
(* subproject.py: ResolvedDependencies.  graph is the mapping as the list  *)
(* of its (key, group) items in insertion order; pretty_print runs one     *)
(* pretty_print_dependency call or one return per step.                    *)

\* out.FoundDependency with its children: None or the list of their keys
GraphDependency(package, version, transitivity, children) ==
    [package |-> package, version |-> version, transitivity |-> transitivity,
     children |-> children]

KeyOf(dep) == DependencyChild(dep.package, dep.version)

\* iter_found_dependencies: the groups one after the other
RECURSIVE iter_found_dependencies(_)
iter_found_dependencies(groups) ==
    IF groups = <<>> THEN <<>>
    ELSE Head(groups).deps \o iter_found_dependencies(Tail(groups))

\* k in self._dependencies_by_package_version_pair
HasKey(groups, k) == \E i \in 1..Len(groups) : groups[i].key = k

\* self._dependencies_by_package_version_pair[k]
Lookup(groups, k) == groups[CHOOSE i \in 1..Len(groups) : groups[i].key = k].deps

\* one printed line: the number of leading spaces and the text after them
Line(spaces, text) == [spaces |-> spaces, text |-> text, key |-> None]

\* the line f"- {package}@{version}"
KeyLine(spaces, key) == [spaces |-> spaces, text |-> "- @", key |-> Some(key)]

\* a pretty_print_dependency call: its arguments, whether it is past the
\* already-printed test, and how many children it has gone through
PrintFrame(dep, indent) ==
    [dep |-> dep, indent |-> indent, entered |-> FALSE, child_i |-> 0]

\* faulty variant (sensitivity of C25): no key counts as printed
AlreadyPrinted_Never(key, seen) == FALSE

\* line 213: the key is in already_printed
AlreadyPrinted(key, seen) == key \in seen

graph_fixed == <<allow_dynamic_resolution, ptt_enabled, relevant_subprojects,
                 resolve_untargeted_subprojects, all_dependency_source_targets,
                 code_files, dependency_aware_rules, found_subprojects, closest_calls,
                 unresolved, find_vars, item_i, frame, result, dependency_targets,
                 call_vars, history, child_results>>
print_vars == <<directs, direct_i, stack, already_printed, printed_in_graph, printed,
                expanded>>

\* ResolvedSubproject.from_unresolved, lines 357-382: the record is built from
\* the flat list and kept under its ecosystem
FromUnresolved ==
    /\ pc = "from_found"
    /\ LET resolved_subproject ==
               ResolvedSubproject_from_unresolved(found_subprojects[1],
                   LOCKFILE_PARSING, <<>>, flat_deps, found_subprojects[1].ecosystem)
       IN /\ resolved' = StoreResolved(resolved, resolved_subproject)
          /\ graph' = resolved_subproject.found_dependencies
    /\ pc' = "graph"
    /\ UNCHANGED <<graph_fixed, flat_deps, print_vars, stats, exception>>

\* ResolvedSubproject.to_stats_output, lines 384-395: one use of the graph, its
\* count; the other is pretty_print
GraphToStats ==
    /\ pc = "graph"
    /\ stats' = <<[of |-> 1, resolved |-> TRUE,
                   out |-> ResolvedSubproject_to_stats_output(
                               resolved[found_subprojects[1].ecosystem][1])]>>
    /\ pc' = "counted"
    /\ UNCHANGED <<graph_fixed, flat_deps, graph, resolved, print_vars, exception>>

IsDirect(dep) == dep.transitivity = "Direct"

\* pretty_print, lines 226-232
PrettyPrint ==
    /\ pc = "graph"
    /\ printed' = <<Line(0, "Direct dependencies (plus children if available)")>>
    /\ directs' = SelectSeq(iter_found_dependencies(graph), IsDirect)
    /\ printed_in_graph' = {}
    /\ direct_i' = 0
    /\ pc' = "pretty_print"
    /\ UNCHANGED <<graph_fixed, flat_deps, graph, resolved, stack, already_printed,
                   expanded, stats, exception>>

\* line 234: pretty_print_dependency(direct); lines 207-208: without the
\* third argument the call starts from a new empty set
CallRoot ==
    /\ pc = "pretty_print"
    /\ stack = <<>>
    /\ direct_i < Len(directs)
    /\ stack' = <<PrintFrame(directs[direct_i + 1], 0)>>
    /\ already_printed' = {}
    /\ UNCHANGED <<graph_fixed, flat_deps, graph, resolved, directs, direct_i,
                   printed_in_graph, printed, expanded, stats, pc, exception>>

\* the innermost call returns already_printed: to its caller's
\* already_printed |= ..., or at line 234 to printed_in_graph |= ...
ReturnFromCall ==
    /\ stack' = SubSeq(stack, 1, Len(stack) - 1)
    /\ IF Len(stack) = 1
       THEN /\ printed_in_graph' = printed_in_graph \cup already_printed
            /\ direct_i' = direct_i + 1
       ELSE UNCHANGED <<printed_in_graph, direct_i>>

\* lines 210-216: the entry is printed; its key was printed before in this
\* call tree, so the call returns
EnterPrinted ==
    /\ pc = "pretty_print"
    /\ stack # <<>>
    /\ LET top == stack[Len(stack)]
       IN /\ ~top.entered
          /\ AlreadyPrinted(KeyOf(top.dep), already_printed)
          /\ printed' = printed \o <<KeyLine(top.indent * 2, KeyOf(top.dep)),
                                     Line(2 * (top.indent + 1), "(already printed)")>>
    /\ ReturnFromCall
    /\ UNCHANGED <<graph_fixed, flat_deps, graph, resolved, directs, already_printed,
                   expanded, stats, pc, exception>>

\* lines 210-217: the entry is printed and its key joins already_printed
EnterNew ==
    /\ pc = "pretty_print"
    /\ stack # <<>>
    /\ LET top == stack[Len(stack)]
       IN /\ ~top.entered
          /\ ~AlreadyPrinted(KeyOf(top.dep), already_printed)
          /\ printed' = Append(printed, KeyLine(top.indent * 2, KeyOf(top.dep)))
          /\ already_printed' = already_printed \cup {KeyOf(top.dep)}
          /\ expanded' = IF IsNone(top.dep.children) \/ Get(top.dep.children) = <<>>
                         THEN expanded
                         ELSE Append(expanded, KeyOf(top.dep))
          /\ stack' = [stack EXCEPT ![Len(stack)].entered = TRUE]
    /\ UNCHANGED <<graph_fixed, flat_deps, graph, resolved, directs, direct_i,
                   printed_in_graph, stats, pc, exception>>

\* the next child of the innermost call, if it has one left
NextChild(top) ==
    IF top.entered /\ ~IsNone(top.dep.children)
                   /\ top.child_i < Len(Get(top.dep.children))
    THEN Some(Get(top.dep.children)[top.child_i + 1])
    ELSE None

\* lines 219-226: the first entry under the child's key is printed two levels
\* deeper
VisitChild ==
    /\ pc = "pretty_print"
    /\ stack # <<>>
    /\ Len(stack) < MaxDepth
    /\ LET top == stack[Len(stack)]
           child == NextChild(top)
       IN /\ ~IsNone(child)
          /\ HasKey(graph, Get(child))
          /\ stack' = Append([stack EXCEPT ![Len(stack)].child_i = @ + 1],
                             PrintFrame(Lookup(graph, Get(child))[1], top.indent + 2))
    /\ UNCHANGED <<graph_fixed, flat_deps, graph, resolved, directs, direct_i,
                   already_printed, printed_in_graph, printed, expanded, stats, pc,
                   exception>>

\* line 222: the child's key is not in the mapping and the subscript raises
\* KeyError, which nothing in pretty_print catches
MissingChild ==
    /\ pc = "pretty_print"
    /\ stack # <<>>
    /\ LET top == stack[Len(stack)]
           child == NextChild(top)
       IN /\ ~IsNone(child)
          /\ ~HasKey(graph, Get(child))
    /\ pc' = "crashed"
    /\ exception' = "KeyError"
    /\ UNCHANGED <<graph_fixed, flat_deps, graph, resolved, print_vars, stats>>

\* line 227: the innermost call is through with its children and returns
ReturnAfterChildren ==
    /\ pc = "pretty_print"
    /\ stack # <<>>
    /\ LET top == stack[Len(stack)]
       IN /\ top.entered
          /\ IsNone(NextChild(top))
    /\ ReturnFromCall
    /\ UNCHANGED <<graph_fixed, flat_deps, graph, resolved, directs, already_printed,
                   printed, expanded, stats, pc, exception>>

\* the entries of the given transitivity whose key the traversal did not print
Others(groups, transitivity, seen) ==
    SelectSeq(iter_found_dependencies(groups),
              LAMBDA dep : dep.transitivity = transitivity /\ KeyOf(dep) \notin seen)

KeyLines(deps) == [i \in 1..Len(deps) |-> KeyLine(0, KeyOf(deps[i]))]

\* lines 236-258: the entries the traversal did not reach are listed
PrintOthers ==
    /\ pc = "pretty_print"
    /\ stack = <<>>
    /\ direct_i = Len(directs)
    /\ printed' = printed
                  \o <<Line(0, "other transitives:")>>
                  \o KeyLines(Others(graph, "Transitive", printed_in_graph))
                  \o <<Line(0, "other unknown transitivity:")>>
                  \o KeyLines(Others(graph, "Unknown", printed_in_graph))
    /\ pc' = "done"
    /\ UNCHANGED <<graph_fixed, flat_deps, graph, resolved, directs, direct_i, stack,
                   already_printed, printed_in_graph, expanded, stats, exception>>

\* the keys of the graphs: two versions of one package, and a key no entry has
GraphKeys == { DependencyChild("a", 1), DependencyChild("a", 2) }
MissingKey == DependencyChild("b", 1)

ChildrenChoices ==
    { None, Some(<<DependencyChild("a", 1)>>), Some(<<DependencyChild("a", 2)>>),
      Some(<<DependencyChild("a", 1), DependencyChild("a", 2)>>), Some(<<MissingKey>>) }

GraphDependencies ==
    { GraphDependency(k.package, k.version, t, c) :
        k \in GraphKeys, t \in {"Direct", "Transitive"}, c \in ChildrenChoices }
    \cup { GraphDependency(k.package, k.version, "Unknown", None) : k \in GraphKeys }

\* a resolver returned any list of up to MaxDeps such entries for a subproject
InitGraph ==
    /\ allow_dynamic_resolution = FALSE
    /\ ptt_enabled = FALSE
    /\ resolve_untargeted_subprojects = TRUE
    /\ all_dependency_source_targets = {}
    /\ code_files = <<>>
    /\ dependency_aware_rules = <<>>
    /\ found_subprojects =
          <<Subproject(RootDir(1),
                       LockfileOnlyDependencySource("NpmPackageLockJson", LockfilePath(1, 1)),
                       "Npm")>>
    /\ pc = "from_found"
    /\ LoopNotStarted
    /\ FindNotStarted
    /\ flat_deps \in UNION { [1..n -> GraphDependencies] : n \in 0..MaxDeps }
    /\ graph = <<>>
    /\ directs = <<>>
    /\ direct_i = 0
    /\ stack = <<>>
    /\ already_printed = {}
    /\ printed_in_graph = {}
    /\ printed = <<>>
    /\ expanded = <<>>

\* the steps of a pretty_print call once it has started
PrintStep ==
    \/ CallRoot
    \/ EnterPrinted
    \/ EnterNew
    \/ VisitChild
    \/ MissingChild
    \/ ReturnAfterChildren
    \/ PrintOthers

NextGraph ==
    \/ FromUnresolved
    \/ GraphToStats
    \/ PrettyPrint
    \/ PrintStep

SpecGraph == InitGraph /\ [][NextGraph]_vars

\* pretty_print runs in one thread that does not stop by itself
SpecGraphFair == SpecGraph /\ WF_vars(PrintStep)

-----------------------------------------------------------------------------
(* Properties.  A resolution is "returned" in the state pc = "resolved":   *)
(* result holds what resolve_dependency_source gave back for the           *)
(* subproject relevant_subprojects[item_i + 1], frame.dep_source is its    *)
(* source, and the history variables tell what the engine and the parser   *)
(* did on the way.                                                         *)

NoResult == Result(None, <<>>, <<>>)

Returned == pc = "resolved"

\* the call in progress is for a LockfileOnly / ManifestLockfile source
LockfileCall == pc \in {"rpc", "parse", "resolved"} /\ HasLockfile(frame.dep_source)

\* ... and it qualifies for an engine call
EngineQualifies ==
    LockfileCall /\ (frame.use_nondynamic_ocaml_parsing \/ frame.use_dynamic_resolution)

ParserRegistered(dep_source) == PARSERS_BY_LOCKFILE_KIND(dep_source.lkind) = "parser"

\* the result built from the last output of the static parser
StaticResult ==
    Result(ResolvedInfo(LOCKFILE_PARSING, parser_seen.deps), parser_seen.errors,
           <<frame.dep_source.lpath>>)

\* the result built from what the adapter returned
EngineResult ==
    Result(ResolvedInfo(IF frame.use_nondynamic_ocaml_parsing
                        THEN LOCKFILE_PARSING ELSE DYNAMIC,
                        Get(rpc_seen.ret.deps)),
           rpc_seen.ret.errors, rpc_seen.ret.targets)

\* C1: a LockfileOnly source whose lockfile kind has a parser, resolved with PTT
\* off, returns method LOCKFILE_PARSING with exactly the parser's dependencies,
\* exactly the parser's errors and targets = [lockfile.path], and the engine is
\* not called.
C1_LockfileOnlyStaticParse ==
    ( /\ Returned
      /\ frame.dep_source.tag = "LockfileOnly"
      /\ ParserRegistered(frame.dep_source)
      /\ ~ptt_enabled )
    => /\ parser_seen.called
       /\ result = StaticResult
       /\ calls = <<"parser">>

C1_Witness ==
    /\ Returned
    /\ frame.dep_source.tag = "LockfileOnly"
    /\ frame.dep_source.lkind = "PipRequirementsTxt"
    /\ ~ptt_enabled
    /\ allow_dynamic_resolution
    /\ Len(parser_seen.deps) = MaxDeps
    /\ Len(parser_seen.errors) > 0

\* C2 as stated: for a lockfile source that qualifies for the engine, the
\* engine's result is final only when its dependency list is non-empty, and
\* whenever the engine yields no dependencies (none or an empty list) and a
\* parser is registered the final result is the static parser's.
C2_EngineFinalOnlyIfNonEmpty ==
    (Returned /\ EngineQualifies)
    => /\ (calls = <<"rpc">> =>
              ~IsNone(rpc_seen.ret.deps) /\ Len(Get(rpc_seen.ret.deps)) > 0)
       /\ ( ( /\ (IsNone(rpc_seen.ret.deps) \/ Get(rpc_seen.ret.deps) = <<>>)
              /\ ParserRegistered(frame.dep_source) )
            => result = StaticResult /\ calls = <<"rpc", "parser">> )

\* C2 amended: the engine's result is final exactly when the adapter returns a
\* dependency list, empty or not (an Ok result); whenever the adapter returns
\* none (the call raised, there was no response, or the result was an Err) and
\* a parser is registered, the final result is the static parser's output with
\* method LOCKFILE_PARSING and targets = [lockfile path].
C2_EngineFinalIffNotNone ==
    (Returned /\ EngineQualifies)
    => /\ (~IsNone(rpc_seen.ret.deps) =>
              result = EngineResult /\ calls = <<"rpc">>)
       /\ ( (IsNone(rpc_seen.ret.deps) /\ ParserRegistered(frame.dep_source))
            => result = StaticResult /\ calls = <<"rpc", "parser">> )

C2_Witness ==
    /\ Returned
    /\ EngineQualifies
    /\ rpc_seen.first.tag = "ResolutionOk"
    /\ rpc_seen.ret.deps = Some(<<>>)
    /\ result.resolved_info = ResolvedInfo(LOCKFILE_PARSING, <<>>)
    /\ calls = <<"rpc">>

\* C3: while one lockfile source that qualifies for the engine is resolved, the
\* external calls made are the engine call first and then at most one parser
\* call; the parser runs only after the engine call returned no dependencies,
\* and never once the engine result is accepted.
C3_EngineBeforeParser ==
    EngineQualifies
    => /\ calls \in {<<>>, <<"rpc">>, <<"rpc", "parser">>}
       /\ (pc = "parse" => calls = <<"rpc">>)
       /\ (calls = <<"rpc", "parser">> =>
              rpc_seen.ret.raised = NoneV /\ IsNone(rpc_seen.ret.deps))
       /\ ((calls # <<>> /\ ~IsNone(rpc_seen.ret.deps)) =>
              calls = <<"rpc">> /\ pc = "resolved")

C3_Witness ==
    /\ Returned
    /\ EngineQualifies
    /\ frame.use_dynamic_resolution
    /\ calls = <<"rpc", "parser">>
    /\ rpc_seen.first.tag = "ResolutionError"

\* every ResolvedSubproject emitted so far
AllResolved == UNION { Range(resolved[e]) : e \in DOMAIN resolved }

\* C4: a subproject is recorded as FAILED only if no dependency was obtained for
\* it through any path; a dispatched subproject for which the engine or the
\* static parser produced a dependency is recorded as ResolvedSubproject, with
\* the errors of its resolution attached.
C4_FailedOnlyIfNothingObtained ==
    /\ \A u \in Range(unresolved) :
          u.unresolved_reason = FAILED =>
              \E h \in Range(history) :
                  h.dispatched /\ h.kind = "unresolved" /\ h.record = u /\ ~h.obtained
    /\ \A h \in Range(history) :
          (h.dispatched /\ h.obtained) =>
              /\ h.kind = "resolved"
              /\ h.record \in AllResolved
              /\ h.record.resolution_errors = h.result.errors
              /\ \A u \in Range(unresolved) : u.root_dir # h.record.root_dir

C4_Witness ==
    \E h \in Range(history) :
        /\ h.dispatched
        /\ h.obtained
        /\ h.calls = <<"rpc", "parser">>
        /\ h.record \in AllResolved
        /\ Len(h.record.resolution_errors) > 0

\* C5: every error produced while a dispatched subproject was resolved (each
\* error or warning the engine returned, each error the static parser returned)
\* is among the resolution errors of the record produced for that subproject.
C5_NoErrorDropped ==
    \A h \in Range(history) :
        h.dispatched => Range(h.produced) \subseteq Range(h.record.resolution_errors)

\* C6: when the remote call raises, returns none or returns an empty response
\* list, the adapter returns (none, [], []) and no exception leaves it.
C6_RpcFailureDegrades ==
    ( \/ rpc_seen.kind \in {"raise", "None"}
      \/ (rpc_seen.kind = "list" /\ rpc_seen.n = 0) )
    => /\ rpc_seen.ret = RpcReturn(None, <<>>, <<>>)
       /\ pc # "crashed"
       /\ exception = NoneV

\* C7: a lockfile source for which the engine path does not apply and whose
\* lockfile kind has no parser (mapped to None, or absent from the registry)
\* resolves to (none, [], []) without raising.
C7_NoParserNoResult ==
    ( /\ pc \in {"rpc", "parse", "resolved", "crashed"}
      /\ HasLockfile(frame.dep_source)
      /\ ~frame.use_nondynamic_ocaml_parsing
      /\ ~frame.use_dynamic_resolution
      /\ ~ParserRegistered(frame.dep_source) )
    => /\ pc = "resolved"
       /\ result = NoResult
       /\ exception = NoneV

\* the adapter interpreted a result for the source of the call in progress
RpcInterpreted ==
    /\ pc \in {"parse", "resolved"}
    /\ frame.child = 0
    /\ rpc_seen.kind = "list"
    /\ rpc_seen.n > 0

\* the engine's errors, each wrapped with path, in the engine's order
WrappedWith(path) ==
    [i \in 1..Len(rpc_seen.first.errors) |->
        DependencyResolutionError(rpc_seen.first.errors[i], path)]

\* on Ok the adapter returns the engine's dependencies
OkKeepsDependencies ==
    rpc_seen.first.tag = "ResolutionOk" => rpc_seen.ret.deps = Some(rpc_seen.first.deps)

\* C8 as stated: every error the adapter returns is wrapped with the lockfile
\* path whenever the source has a lockfile and with the manifest path only when
\* it has none; on Ok the wrapped errors come with the dependencies, one per
\* engine error, in order.
C8_WrappedWithLockfileIfPresent ==
    RpcInterpreted
    => /\ rpc_seen.ret.errors =
              WrappedWith(IF HasLockfile(frame.dep_source)
                          THEN frame.dep_source.lpath
                          ELSE frame.dep_source.mpath)
       /\ OkKeepsDependencies

\* C8 amended: every error the adapter returns is wrapped with the lockfile
\* path only when the source is LockfileOnly, and with the manifest path
\* whenever the source has a manifest (ManifestOnly and ManifestLockfile); on
\* Ok the wrapped errors come with the dependencies, one per engine error, in
\* order.
C8_WrappedWithManifestIfPresent ==
    RpcInterpreted
    => /\ rpc_seen.ret.errors =
              WrappedWith(IF frame.dep_source.tag = "LockfileOnly"
                          THEN frame.dep_source.lpath
                          ELSE frame.dep_source.mpath)
       /\ OkKeepsDependencies

C8_Witness ==
    /\ RpcInterpreted
    /\ frame.dep_source.tag = "ManifestLockfile"
    /\ rpc_seen.first.tag = "ResolutionOk"
    /\ Len(rpc_seen.first.errors) = MaxErrors
    /\ Len(rpc_seen.first.deps) > 0
    /\ result.errors = rpc_seen.ret.errors
    /\ result.errors[1].dependency_source_file = frame.dep_source.mpath

\* C9: with allow_dynamic_resolution false no result of
\* resolve_dependency_source (of a subproject's source or of a multi-lockfile
\* child) carries method DYNAMIC, whatever the source and the PTT flag, and no
\* ResolvedSubproject has resolution method DYNAMIC.
C9_NoDynamicUnlessAllowed ==
    ~allow_dynamic_resolution
    => /\ (~IsNone(result.resolved_info) => Get(result.resolved_info).method # DYNAMIC)
       /\ DYNAMIC \notin frame.resolution_methods
       /\ \A r \in AllResolved : r.resolution_method # DYNAMIC

C9_Witness ==
    /\ ~allow_dynamic_resolution
    /\ ptt_enabled
    /\ \E h \in Range(history) :
          /\ h.calls = <<"rpc">>
          /\ h.record \in AllResolved
          /\ h.record.resolution_method = LOCKFILE_PARSING

\* the manifest kinds usable without a lockfile
LockfilelessManifestKinds ==
    { mk \in ManifestKinds : <<mk, NoneV>> \in PTT_DYNAMIC_RESOLUTION_SUBPROJECT_KINDS }

\* C10: a ManifestOnly source resolves to exactly (none, [], []) without an
\* engine call when allow_dynamic_resolution is false, for every manifest kind
\* and PTT value, and also when it is true and the manifest kind is outside the
\* lockfile-less allow-list; any non-none result for a ManifestOnly source has
\* method DYNAMIC.
C10_ManifestOnly ==
    (pc \in {"rpc", "parse", "multi", "resolved", "crashed"}
        /\ frame.dep_source.tag = "ManifestOnly")
    => /\ ( (~allow_dynamic_resolution
               \/ frame.dep_source.mkind \notin LockfilelessManifestKinds)
            => pc = "resolved" /\ result = NoResult /\ calls = <<>> )
       /\ ( (pc = "resolved" /\ ~IsNone(result.resolved_info))
            => Get(result.resolved_info).method = DYNAMIC )

C10_Witness ==
    /\ Returned
    /\ frame.dep_source.tag = "ManifestOnly"
    /\ frame.dep_source.mkind = "PomXml"
    /\ ~allow_dynamic_resolution
    /\ ptt_enabled
    /\ result = NoResult

-----------------------------------------------------------------------------
(* MultiLockfile sources *)

\* a MultiLockfile source is being resolved, or its resolution just ended
MultiLockfileCall ==
    /\ pc \in {"multi", "rpc", "parse", "resolved", "crashed"}
    /\ frame.dep_source.tag = "MultiLockfile"

\* C11: while a MultiLockfile source is resolved every child runs with dynamic
\* resolution and PTT off, whatever flags the caller passed: neither engine
\* flag is ever set for a child, no child result has method DYNAMIC, and the
\* remote engine is never called.
C11_NoEngineForMultiLockfile ==
    MultiLockfileCall
    => /\ pc # "rpc"
       /\ "rpc" \notin Range(calls)
       /\ ~frame.use_dynamic_resolution
       /\ ~frame.use_nondynamic_ocaml_parsing
       /\ \A r \in Range(child_results) :
              ~IsNone(r.resolved_info) => Get(r.resolved_info).method = LOCKFILE_PARSING

C11_Witness ==
    /\ Returned
    /\ frame.dep_source.tag = "MultiLockfile"
    /\ allow_dynamic_resolution
    /\ ptt_enabled
    /\ Len(frame.dep_source.sources) = MaxChildren
    /\ frame.dep_source.sources[1].lkind = "PipRequirementsTxt"
    /\ frame.dep_source.sources[2].mkind = "PackageJson"
    /\ calls = <<"parser", "parser">>

\* the concatenation of a sequence of sequences, in order
RECURSIVE Concat(_)
Concat(seqs) ==
    IF seqs = <<>> THEN <<>> ELSE Head(seqs) \o Concat(Tail(seqs))

\* the dependency list a child contributed: that of its result, nothing when
\* the child did not resolve
ChildDeps(r) ==
    IF IsNone(r.resolved_info) THEN <<>> ELSE Get(r.resolved_info).deps

\* C12: the result of a MultiLockfile source is the in-order concatenation of
\* its children's results: one result per child; the dependency list is the
\* concatenation of the lists of the children that resolved, the error list the
\* concatenation of all children's errors, the target list the concatenation
\* of all children's targets; a child that does not resolve discards nothing.
C12_MultiLockfileConcatenates ==
    (Returned /\ frame.dep_source.tag = "MultiLockfile")
    => /\ Len(child_results) = Len(frame.dep_source.sources)
       /\ ~IsNone(result.resolved_info)
       /\ Get(result.resolved_info).deps =
              Concat([i \in 1..Len(child_results) |-> ChildDeps(child_results[i])])
       /\ result.errors =
              Concat([i \in 1..Len(child_results) |-> child_results[i].errors])
       /\ result.targets =
              Concat([i \in 1..Len(child_results) |-> child_results[i].targets])

C12_Witness ==
    /\ Returned
    /\ frame.dep_source.tag = "MultiLockfile"
    /\ Len(child_results) = 2
    /\ Len(ChildDeps(child_results[1])) = MaxDeps
    /\ Len(child_results[1].errors) > 0
    /\ IsNone(child_results[2].resolved_info)
    /\ Len(Get(result.resolved_info).deps) = MaxDeps
    /\ Len(result.targets) = 1

-----------------------------------------------------------------------------
(* The orchestrator's records.  history[i] tells how iteration i of the    *)
(* dispatch loop, the one of relevant_subprojects[i], ended.               *)

\* how many entries of a list of records are records of subproject
Occurrences(records, subproject) ==
    Cardinality({ i \in 1..Len(records) :
                    /\ records[i].root_dir = subproject.root_dir
                    /\ records[i].dependency_source = subproject.dependency_source })

\* how many ResolvedSubproject records of subproject are stored under key e
ResolvedUnder(e, subproject) ==
    IF e \in DOMAIN resolved THEN Occurrences(resolved[e], subproject) ELSE 0

\* C13: a dispatched subproject whose resolved pair is none has exactly one
\* record, an UnresolvedSubproject with reason FAILED and the dispatcher's
\* errors; one whose resolved pair is not none has exactly one record, a
\* ResolvedSubproject with the dispatcher's method, errors and dependencies,
\* stored under its own ecosystem; every record in resolved[E] has ecosystem E,
\* and none is never a key.
C13_OneRecordPerDispatch ==
    /\ \A i \in 1..Len(history) :
          LET h == history[i]
              subproject == relevant_subprojects[i]
          IN h.dispatched =>
               IF IsNone(h.result.resolved_info)
               THEN /\ h.record = UnresolvedSubproject_from_subproject(
                                      subproject, FAILED, h.result.errors)
                    /\ Occurrences(unresolved, subproject) = 1
                    /\ h.record \in Range(unresolved)
                    /\ \A e \in Ecosystems : ResolvedUnder(e, subproject) = 0
               ELSE /\ h.record = ResolvedSubproject_from_unresolved(
                                      subproject, Get(h.result.resolved_info).method,
                                      h.result.errors, Get(h.result.resolved_info).deps,
                                      subproject.ecosystem)
                    /\ Occurrences(unresolved, subproject) = 0
                    /\ h.record \in Range(resolved[subproject.ecosystem])
                    /\ \A e \in Ecosystems :
                          ResolvedUnder(e, subproject) =
                              IF e = subproject.ecosystem THEN 1 ELSE 0
    /\ DOMAIN resolved \subseteq Ecosystems
    /\ \A e \in DOMAIN resolved : \A r \in Range(resolved[e]) : r.ecosystem = e

C13_Witness ==
    /\ pc = "done"
    /\ Len(history) = 2
    /\ history[1].dispatched
    /\ history[2].dispatched
    /\ ~IsNone(history[1].result.resolved_info)
    /\ IsNone(history[2].result.resolved_info)
    /\ Len(history[2].result.errors) > 0
    /\ Len(unresolved) = 1
    /\ unresolved[1].unresolved_reason = FAILED

\* the unresolved records of a subproject
UnresolvedRecordsOf(subproject) ==
    { u \in Range(unresolved) :
        /\ u.root_dir = subproject.root_dir
        /\ u.dependency_source = subproject.dependency_source }

\* the dispatcher is not, and was not, invoked for a subproject without ecosystem
NoEcosystemNeverDispatched ==
    /\ \A i \in 1..Len(history) :
          relevant_subprojects[i].ecosystem = NoneV => ~history[i].dispatched
    /\ pc \in {"rpc", "parse", "multi", "resolved", "crashed"}
          => relevant_subprojects[item_i + 1].ecosystem # NoneV

\* C14 as stated: every discovered subproject without ecosystem ends up in the
\* unresolved output with reason UNSUPPORTED and is never dispatched, with
\* relevance filtering on or off.
C14_NoEcosystemAlwaysUnsupported ==
    /\ NoEcosystemNeverDispatched
    /\ pc = "done" =>
          \A s \in Range(found_subprojects) :
              s.ecosystem = NoneV =>
                  \E u \in UnresolvedRecordsOf(s) : u.unresolved_reason = UNSUPPORTED

\* C14 amended: a discovered subproject without ecosystem is never dispatched;
\* once the loop has passed it, it is in the unresolved output with reason
\* UNSUPPORTED and no errors if it is relevant (always so when
\* resolve_untargeted_subprojects is true), and when relevance filtering is on
\* and it is not relevant it is there with reason SKIPPED instead.
C14_NoEcosystemUnsupportedOrSkipped ==
    /\ NoEcosystemNeverDispatched
    /\ \A i \in 1..Len(history) :
          relevant_subprojects[i].ecosystem = NoneV =>
              UnresolvedRecordsOf(relevant_subprojects[i]) =
                  { UnresolvedSubproject_from_subproject(
                        relevant_subprojects[i], UNSUPPORTED, <<>>) }
    /\ pc # "start" =>
          \A s \in Range(found_subprojects) \ Range(relevant_subprojects) :
              s.ecosystem = NoneV =>
                  /\ ~resolve_untargeted_subprojects
                  /\ UnresolvedRecordsOf(s) =
                        { UnresolvedSubproject_from_subproject(s, SKIPPED, <<>>) }

C14_Witness ==
    /\ pc = "done"
    /\ ~resolve_untargeted_subprojects
    /\ Len(found_subprojects) = 2
    /\ found_subprojects[1].ecosystem = NoneV
    /\ found_subprojects[2].ecosystem = NoneV
    /\ Len(unresolved) = 2
    /\ unresolved[1].unresolved_reason = SKIPPED
    /\ unresolved[2].unresolved_reason = UNSUPPORTED

\* the discovered subprojects the filter did not mark relevant
NotRelevant == Range(found_subprojects) \ Range(relevant_subprojects)

\* C15: once the filter has run, every subproject it did not mark relevant has
\* exactly one record, an UnresolvedSubproject with reason SKIPPED and no
\* errors, and has never been dispatched: it is not the subproject of any loop
\* iteration and has no resolved record; only such subprojects are SKIPPED, and
\* with resolve_untargeted_subprojects nothing is SKIPPED.
C15_IrrelevantSkipped ==
    pc # "start"
    => /\ \A s \in NotRelevant :
              /\ UnresolvedRecordsOf(s) =
                    { UnresolvedSubproject_from_subproject(s, SKIPPED, <<>>) }
              /\ Occurrences(unresolved, s) = 1
              /\ \A e \in Ecosystems : ResolvedUnder(e, s) = 0
              /\ \A i \in 1..Len(relevant_subprojects) : relevant_subprojects[i] # s
       /\ \A u \in Range(unresolved) :
              u.unresolved_reason = SKIPPED =>
                  \E s \in NotRelevant : u \in UnresolvedRecordsOf(s)
       /\ resolve_untargeted_subprojects =>
              /\ NotRelevant = {}
              /\ \A u \in Range(unresolved) : u.unresolved_reason # SKIPPED

C15_Witness ==
    /\ pc = "done"
    /\ ~resolve_untargeted_subprojects
    /\ Len(found_subprojects) = 2
    /\ found_subprojects[1].ecosystem = "Pypi"
    /\ found_subprojects[1] \in NotRelevant
    /\ found_subprojects[2] \notin NotRelevant
    /\ unresolved = <<UnresolvedSubproject_from_subproject(found_subprojects[1], SKIPPED, <<>>)>>
    /\ Len(history) = 1
    /\ history[1].kind = "resolved"

-----------------------------------------------------------------------------
(* filter_changed_subprojects and find_closest_subproject, as functions of  *)
(* their inputs.  After Filter, relevant_subprojects and unresolved hold    *)
(* the pair filter_changed_subprojects returned for found_subprojects.      *)

Filtered == pc = "loop" /\ item_i = 0 /\ ~resolve_untargeted_subprojects

\* (a): one of the subproject's own source files is a dependency source target
OwnFileChanged(s) ==
    \E f \in Range(get_all_source_files(s.dependency_source)) :
        f \in all_dependency_source_targets

\* the (code file, ecosystem) pairs the rules make the filter look at: a kept
\* file of a language L with an ecosystem listed by a rule that declares L
CodeTargets ==
    { <<f, e>> \in (UNION { KeptFiles(code_files, l) : l \in DOMAIN code_files }) \X Ecosystems :
        \E n \in 1..Len(dependency_aware_rules) :
            \E l \in Range(dependency_aware_rules[n].languages) :
                /\ f \in KeptFiles(code_files, l)
                /\ e \in Range(dependency_aware_rules[n].ecosystems) }

\* (b): the subproject is the closest subproject of such a pair
ClosestOfSomeTarget(s) ==
    \E t \in CodeTargets :
        find_closest_subproject(t[1], t[2], found_subprojects) = Some(s)

\* C16: filter_changed_subprojects returns as relevant exactly the subprojects
\* that satisfy (a) or (b), and returns every other subproject as irrelevant
\* (an UnresolvedSubproject with reason SKIPPED).
C16_RelevantIffChangedOrClosest ==
    Filtered
    => /\ \A s \in Range(found_subprojects) :
              s \in Range(relevant_subprojects) <=> (OwnFileChanged(s) \/ ClosestOfSomeTarget(s))
       /\ Range(relevant_subprojects) \subseteq Range(found_subprojects)
       /\ Range(unresolved) =
              { UnresolvedSubproject_from_subproject(s, SKIPPED, <<>>) :
                  s \in Range(found_subprojects) \ Range(relevant_subprojects) }

\* the example: A (root repo, Npm), B (root repo/pkg, Npm), the only target is
\* the code file repo/pkg/index.js, one rule javascript -> Npm; B is relevant
\* and A is skipped
C16_Witness ==
    /\ Filtered
    /\ Len(found_subprojects) = 2
    /\ found_subprojects[1].root_dir = <<"repo">>
    /\ found_subprojects[1].ecosystem = "Npm"
    /\ found_subprojects[2].root_dir = <<"repo", "pkg">>
    /\ found_subprojects[2].ecosystem = "Npm"
    /\ all_dependency_source_targets = {}
    /\ code_files = [js |-> {<<"repo", "pkg", "index.js">>}, python |-> {}]
    /\ dependency_aware_rules = <<Rule(<<"js">>, <<"Npm">>)>>
    /\ relevant_subprojects = <<found_subprojects[2]>>
    /\ unresolved =
          <<UnresolvedSubproject_from_subproject(found_subprojects[1], SKIPPED, <<>>)>>

-----------------------------------------------------------------------------
(* Order of the outputs *)

\* the position in a list of subprojects of the subproject a record is about
PositionIn(subprojects, record) ==
    CHOOSE i \in 1..Len(subprojects) :
        /\ subprojects[i].root_dir = record.root_dir
        /\ subprojects[i].dependency_source = record.dependency_source

\* the records of a list occur in the order of their subprojects in subprojects
InOrderOf(subprojects, records) ==
    \A i, j \in 1..Len(records) :
        i < j => PositionIn(subprojects, records[i]) < PositionIn(subprojects, records[j])

SkippedCount ==
    Cardinality({ i \in 1..Len(unresolved) : unresolved[i].unresolved_reason = SKIPPED })

\* C18: the relevant list and the SKIPPED records keep the order of the
\* discovered list; the SKIPPED records come first in the unresolved list and
\* the FAILED / UNSUPPORTED records follow in the order of the relevant list;
\* every per-ecosystem resolved list is in the order of the relevant list.
C18_OutputsKeepOrder ==
    pc # "start"
    => /\ InOrderOf(found_subprojects, relevant_subprojects)
       /\ \A i \in 1..Len(unresolved) :
              unresolved[i].unresolved_reason = SKIPPED <=> i <= SkippedCount
       /\ InOrderOf(found_subprojects, SubSeq(unresolved, 1, SkippedCount))
       /\ InOrderOf(relevant_subprojects,
                    SubSeq(unresolved, SkippedCount + 1, Len(unresolved)))
       /\ \A e \in DOMAIN resolved : InOrderOf(relevant_subprojects, resolved[e])

C18_Witness ==
    /\ pc = "done"
    /\ ~resolve_untargeted_subprojects
    /\ Len(relevant_subprojects) = 2
    /\ "Npm" \in DOMAIN resolved
    /\ resolved["Npm"] = <<history[1].record, history[2].record>>

-----------------------------------------------------------------------------
(* find_closest_subproject *)

\* dir is path or one of its ancestor directories
IsPathOrAncestor(dir, path) ==
    Len(dir) <= Len(path) /\ SubSeq(path, 1, Len(dir)) = dir

\* the candidates of the requested ecosystem whose root covers the path
Covering(path, ecosystem, candidates) ==
    { c \in Range(candidates) :
        c.ecosystem = ecosystem /\ IsPathOrAncestor(c.root_dir, path) }

\* C19: every find_closest_subproject(path, ecosystem, candidates) call returns
\* none exactly when no candidate has the requested ecosystem and a root_dir
\* that is the path or one of its ancestors; otherwise it returns such a
\* candidate, and no other such candidate has a root_dir with more parts.
C19_ClosestIsDeepestCovering ==
    \A c \in closest_calls :
        LET covering == Covering(c.path, c.ecosystem, found_subprojects)
        IN /\ IsNone(c.result) <=> covering = {}
           /\ ~IsNone(c.result) =>
                  /\ Get(c.result) \in covering
                  /\ \A other \in covering : Depth(other) <= Depth(Get(c.result))

\* a deeper candidate of another ecosystem does not hide the shallower
\* candidate of the requested one
C19_Witness ==
    /\ Filtered
    /\ Len(found_subprojects) = 2
    /\ \E c \in closest_calls :
          /\ c.path = <<"repo", "pkg", "index.js">>
          /\ c.ecosystem = "Npm"
          /\ found_subprojects[1].root_dir = <<"repo", "pkg">>
          /\ found_subprojects[1].ecosystem = "Pypi"
          /\ found_subprojects[2].root_dir = <<"repo">>
          /\ found_subprojects[2].ecosystem = "Npm"
          /\ c.result = Some(found_subprojects[2])

-----------------------------------------------------------------------------
(* subproject_id *)

\* t holds the entries of s in some order
IsPermutation(s, t) ==
    /\ Len(s) = Len(t)
    /\ \E p \in Permutations(1..Len(s)) : t = [i \in 1..Len(s) |-> s[p[i]]]

\* C20: two to_stats_output calls give the same subproject_id when they are
\* made on the same subproject (again, or on the ResolvedSubproject built from
\* it) and when they are made on MultiLockfile sources whose children are
\* permutations of each other.
C20_SubprojectIdStable ==
    \A a, b \in Range(stats) :
        LET source_a == found_subprojects[a.of].dependency_source
            source_b == found_subprojects[b.of].dependency_source
        IN ( \/ a.of = b.of
             \/ IsPermutation(source_a.sources, source_b.sources) )
           => a.out.subproject_id = b.out.subproject_id

\* two children in two orders, one id computed on a Subproject, the other on a
\* ResolvedSubproject
C20_Witness ==
    /\ Len(stats) = 2
    /\ stats[1].of = 1
    /\ stats[2].of = 2
    /\ ~stats[1].resolved
    /\ stats[2].resolved
    /\ Len(found_subprojects[1].dependency_source.sources) = 2
    /\ Len(found_subprojects[2].dependency_source.sources) = 2
    /\ found_subprojects[1].dependency_source.sources[1]
          = found_subprojects[2].dependency_source.sources[2]
    /\ found_subprojects[1].dependency_source.sources[2]
          = found_subprojects[2].dependency_source.sources[1]
    /\ found_subprojects[1].dependency_source # found_subprojects[2].dependency_source
    /\ stats[1].out.dependency_sources # stats[2].out.dependency_sources
    /\ stats[1].out.subproject_id = stats[2].out.subproject_id

-----------------------------------------------------------------------------
(* The dependency graph *)

\* how often x occurs in the sequence s
CountIn(s, x) == Cardinality({ i \in 1..Len(s) : s[i] = x })

\* s and t hold the same entries, each as often as the other
SameEntries(s, t) ==
    /\ Len(s) = Len(t)
    /\ \A x \in Range(s) \cup Range(t) : CountIn(s, x) = CountIn(t, x)

\* C21: the graph built from a flat list L counts Len(L) entries, entries that
\* share a (package, version) key included, flattening it gives the entries of
\* L, each as often as L holds it, and the dependency_count of the stats of the
\* ResolvedSubproject built from L is Len(L).
C21_CountIsListLength ==
    pc # "from_found" =>
        /\ count(graph) = Len(flat_deps)
        /\ SameEntries(iter_found_dependencies(graph), flat_deps)
        /\ \A i \in 1..Len(stats) :
              Get(stats[i].out.resolved_stats).dependency_count = Len(flat_deps)

\* two different entries under one key: one group, two entries counted
C21_Witness ==
    /\ Len(stats) = 1
    /\ Len(flat_deps) = 2
    /\ KeyOf(flat_deps[1]) = KeyOf(flat_deps[2])
    /\ flat_deps[1] # flat_deps[2]
    /\ Len(graph) = 1
    /\ Get(stats[1].out.resolved_stats).dependency_count = 2

-----------------------------------------------------------------------------
(* find_subprojects *)

\* the files some matcher reported as used
ClaimedFiles == UNION { offered[i].new_used_files : i \in 1..Len(offered) }

\* C22: a file one matcher reported as used is in the candidates of no later
\* matcher; the matchers are tried in the order of the list; the subprojects
\* returned are those of the matchers in matcher order; and a file no matcher
\* claimed is a source file of no returned subproject.
C22_FirstMatcherWins ==
    /\ \A i, j \in 1..Len(offered) :
          i < j => offered[i].new_used_files \cap offered[j].candidates = {}
    /\ Len(offered) = matcher_i
    /\ \A i \in 1..Len(offered) : offered[i].matcher = matchers[i]
    /\ unresolved_subprojects
          = Concat([i \in 1..Len(offered) |-> offered[i].new_subprojects])
    /\ \A f \in dependency_source_files \ ClaimedFiles :
          \A i \in 1..Len(unresolved_subprojects) :
              f \notin Range(get_all_source_files(unresolved_subprojects[i].dependency_source))
    /\ pc = "start" => found_subprojects = unresolved_subprojects

\* two matchers each used a file, the second was passed fewer files than the
\* first, and one file is left to no subproject
C22_Witness ==
    /\ pc = "start"
    /\ Len(offered) = 2
    /\ offered[1].new_used_files # {}
    /\ offered[2].new_used_files # {}
    /\ offered[2].candidates # offered[1].candidates
    /\ Len(found_subprojects) = 2
    /\ dependency_source_files \ ClaimedFiles # {}

-----------------------------------------------------------------------------
(* pretty_print *)

\* C23: over one pretty_print, each key has its children gone through at most
\* once, under whichever Direct entry it is met.
C23_ExpandedAtMostOnce ==
    \A k \in Range(expanded) : CountIn(expanded, k) <= 1

\* C24: a child key that the mapping does not hold does not end pretty_print
\* with an exception.
C24_MissingChildNoCrash ==
    ~(pc = "crashed" /\ exception = "KeyError")

\* every key named as a child is the key of some entry of the list
ChildrenPresent ==
    \A i \in 1..Len(flat_deps) :
        ~IsNone(flat_deps[i].children) =>
            \A k \in Range(Get(flat_deps[i].children)) :
                \E j \in 1..Len(flat_deps) : KeyOf(flat_deps[j]) = k

\* C25: when every child key is in the mapping, a pretty_print that has started
\* comes to its end, also when the children of a key lead back to that key.
C25_TraversalTerminates ==
    (pc = "pretty_print" /\ ChildrenPresent) ~> (pc = "done")

\* two keys that are each other's child, printed from a Direct entry: the
\* second meeting of the first key is printed as a leaf and the run is over
C25_Witness ==
    /\ pc = "done"
    /\ Len(flat_deps) = 2
    /\ flat_deps[1].transitivity = "Direct"
    /\ flat_deps[1].children = Some(<<KeyOf(flat_deps[2])>>)
    /\ flat_deps[2].children = Some(<<KeyOf(flat_deps[1])>>)
    /\ KeyOf(flat_deps[1]) # KeyOf(flat_deps[2])
    /\ \E i \in 1..Len(printed) : printed[i].text = "(already printed)"

-----------------------------------------------------------------------------
(* The whole run *)

\* the records of subproject in the two outputs
UnresolvedCount(subproject) == Occurrences(unresolved, subproject)
ResolvedCount(subproject) ==
    Cardinality({ e \in Ecosystems : ResolvedUnder(e, subproject) = 1 })

\* the run has returned and subproject has one record: one unresolved record
\* with one of the three reasons, or one resolved record under one ecosystem
AccountedOnce(subproject) ==
    /\ \A e \in Ecosystems : ResolvedUnder(e, subproject) <= 1
    /\ UnresolvedCount(subproject) + ResolvedCount(subproject) = 1
    /\ \A u \in UnresolvedRecordsOf(subproject) :
          u.unresolved_reason \in {SKIPPED, UNSUPPORTED, FAILED}

\* the iterations of the dispatch loop that called the dispatcher for subproject
DispatchesOf(subproject) ==
    { i \in 1..Len(history) : history[i].dispatched /\ relevant_subprojects[i] = subproject }

\* an exception ended the run while subprojects were still waiting
StoppedBeforeLater ==
    pc = "crashed" /\ item_i + 1 < Len(relevant_subprojects)

\* C26: when the run returns, every discovered subproject has exactly one
\* record, in the unresolved list or in one resolved list; the dispatcher is
\* called at most once for a subproject; and what happens to one subproject
\* never keeps the later ones from being processed.
C26_EverySubprojectAccountedOnce ==
    /\ pc = "done" => \A s \in Range(found_subprojects) : AccountedOnce(s)
    /\ \A s \in Range(found_subprojects) : Cardinality(DispatchesOf(s)) <= 1
    /\ ~StoppedBeforeLater

-----------------------------------------------------------------------------
(* MultiLockfile sources: the result and its record *)

IsMultiLockfile(subproject) == subproject.dependency_source.tag = "MultiLockfile"

\* C27: the resolved pair returned for a MultiLockfile source is never None;
\* when no child resolved, or there is no child, it carries the empty
\* dependency list; so the record of a dispatched MultiLockfile subproject is a
\* ResolvedSubproject and never an UnresolvedSubproject with reason FAILED.
C27_MultiLockfileNeverFailed ==
    /\ (Returned /\ frame.dep_source.tag = "MultiLockfile")
       => /\ ~IsNone(result.resolved_info)
          /\ (\A r \in Range(child_results) : IsNone(r.resolved_info))
                => Get(result.resolved_info).deps = <<>>
    /\ \A i \in 1..Len(history) :
          (history[i].dispatched /\ IsMultiLockfile(relevant_subprojects[i]))
          => /\ history[i].kind = "resolved"
             /\ history[i].record \in Range(resolved[relevant_subprojects[i].ecosystem])
    /\ \A u \in Range(unresolved) :
          IsMultiLockfile(u) => u.unresolved_reason # FAILED

\* two children, neither resolved: the subproject is recorded as resolved with
\* no dependency
C27_Witness ==
    /\ pc = "done"
    /\ Len(history) = 1
    /\ IsMultiLockfile(relevant_subprojects[1])
    /\ Len(relevant_subprojects[1].dependency_source.sources) = 2
    /\ history[1].kind = "resolved"
    /\ history[1].result.targets = <<>>
    /\ count(history[1].record.found_dependencies) = 0
    /\ unresolved = <<>>

\* C28: the method returned for a MultiLockfile source is LOCKFILE_PARSING,
\* whatever the flags and the children: DYNAMIC never enters
\* resolution_methods, so the DYNAMIC branch of lines 238-242 is never taken,
\* and the record of the subproject carries LOCKFILE_PARSING.
C28_MultiLockfileMethod ==
    /\ MultiLockfileCall => DYNAMIC \notin frame.resolution_methods
    /\ (Returned /\ frame.dep_source.tag = "MultiLockfile")
       => Get(result.resolved_info).method = LOCKFILE_PARSING
    /\ \A i \in 1..Len(history) :
          (history[i].dispatched /\ IsMultiLockfile(relevant_subprojects[i])
             /\ history[i].kind = "resolved")
          => history[i].record.resolution_method = LOCKFILE_PARSING

\* both flags set and a child that, resolved on its own, would go to the
\* engine: its dependencies come from the parser and the method is
\* LOCKFILE_PARSING
C28_Witness ==
    /\ Returned
    /\ frame.dep_source.tag = "MultiLockfile"
    /\ allow_dynamic_resolution
    /\ ptt_enabled
    /\ Len(frame.dep_source.sources) >= 1
    /\ frame.dep_source.sources[1].mkind = "PackageJson"
    /\ frame.dep_source.sources[1].lkind = "NpmPackageLockJson"
    /\ frame.resolution_methods = {LOCKFILE_PARSING}
    /\ Len(Get(result.resolved_info).deps) > 0
    /\ Get(result.resolved_info).method = LOCKFILE_PARSING

-----------------------------------------------------------------------------
(* The engine and the PTT flag *)

\* the remote engine is being called, or was called, for the subproject in
\* progress
EngineCalled == pc = "rpc" \/ "rpc" \in Range(calls)

\* C29: with ptt_enabled false the remote engine is called for a ManifestOnly
\* source only: a LockfileOnly or ManifestLockfile source is resolved without
\* an engine call, also with allow_dynamic_resolution and a pair of kinds of
\* the dynamic-resolution list, and what is returned for it is the static
\* parser's output, or (None, [], []) when its kind has no parser.
C29_NoEngineWithoutPtt ==
    ~ptt_enabled =>
        /\ EngineCalled => frame.dep_source.tag = "ManifestOnly"
        /\ (Returned /\ HasLockfile(frame.dep_source))
           => /\ rpc_seen = NoRpc
              /\ IF ParserRegistered(frame.dep_source)
                 THEN parser_seen.called /\ result = StaticResult
                 ELSE ~parser_seen.called /\ result = Result(None, <<>>, <<>>)
        /\ \A i \in 1..Len(history) :
              "rpc" \in Range(history[i].calls)
                 => relevant_subprojects[i].dependency_source.tag = "ManifestOnly"

\* dynamic resolution allowed and a pair of the dynamic-resolution list, without
\* PTT: the parser alone was called
C29_Witness ==
    /\ Returned
    /\ ~ptt_enabled
    /\ allow_dynamic_resolution
    /\ frame.dep_source.tag = "ManifestLockfile"
    /\ <<frame.dep_source.mkind, frame.dep_source.lkind>>
          \in PTT_DYNAMIC_RESOLUTION_SUBPROJECT_KINDS
    /\ calls = <<"parser">>
    /\ Len(Get(result.resolved_info).deps) > 0

-----------------------------------------------------------------------------
(* The dependency targets *)

\* the source files of the subprojects in the resolved output
ResolvedSourceFiles ==
    UNION { UNION { Range(get_all_source_files(r.dependency_source)) :
                      r \in Range(resolved[e]) } :
              e \in DOMAIN resolved }

\* C30: a resolve_dependency_source call that returns None as the resolved pair
\* returns no target, for a subproject and for a child of a MultiLockfile
\* source; so an unresolved subproject, whatever its reason, has no file among
\* the dependency targets, and every dependency target is a source file of a
\* subproject of the resolved output.
C30_TargetsOnlyFromResolved ==
    /\ (Returned /\ IsNone(result.resolved_info)) => result.targets = <<>>
    /\ \A r \in Range(child_results) : IsNone(r.resolved_info) => r.targets = <<>>
    /\ \A i \in 1..Len(history) :
          history[i].kind = "unresolved" => history[i].result.targets = <<>>
    /\ \A u \in Range(unresolved) :
          Range(get_all_source_files(u.dependency_source)) \cap Range(dependency_targets) = {}
    /\ Range(dependency_targets) \subseteq ResolvedSourceFiles

\* one subproject failed after an engine call, the other resolved: the only
\* target is a file of the second
C30_Witness ==
    /\ pc = "done"
    /\ Len(history) = 2
    /\ history[1].kind = "unresolved"
    /\ history[1].dispatched
    /\ "rpc" \in Range(history[1].calls)
    /\ Len(history[1].result.errors) > 0
    /\ history[2].kind = "resolved"
    /\ Len(dependency_targets) = 1
    /\ dependency_targets[1] \in
          Range(get_all_source_files(relevant_subprojects[2].dependency_source))

-----------------------------------------------------------------------------
(* subproject_id and the set of display paths *)

\* the set of display paths of the subproject a to_stats_output call was
\* made on
DisplayPathSet(call) ==
    Range(get_display_paths(found_subprojects[call.of].dependency_source))

====
